---- MODULE Spec2Model ----
(***************************************************************************)
(* Model of the spojit sampling engine: artifact filtering, the event      *)
(* stream, the issue life-time manager and the replay loop of              *)
(* ProfileGenerator.run, which turns every commit event into training      *)
(* samples.                                                                *)
(*                                                                         *)
(* Conventions.  A date-time string "YYYY-MM-DDTHH:MM:SSZ" is the pair     *)
(* <<day, sec>> (days since 1970-01-01, second of the day); Python's None  *)
(* is NoDate for a date, NoUser for a user id and "None" for a string.  A  *)
(* python list is a sequence; a dict that the code iterates is a sequence  *)
(* of [key, val] entries in insertion order; a dict that is only looked up *)
(* is a function.  Time stamps are computed in UTC.                        *)
(***************************************************************************)
EXTENDS Integers, Sequences, FiniteSets, TLC

VARIABLES
    args,                    \* the constructor arguments of ProfileGenerator
    pc,                      \* "constructed", "running", "done", or the
                             \* exception that ended run()
    data_source,             \* self.data_source (filtered)
    allowed_issue_types,     \* self.allowed_issue_types
    project_users,           \* self.project_users
    linked_change_sets_unconstrained,
    issue_manager,           \* self.issue_manager
    issue_id_to_issue,       \* lookups built by run()
    commit_hash_to_change_set,
    commit_hash_to_issue_ids,
    event_stream,            \* self.esc.event_stream
    event_nr,                \* number of events of the stream already replayed
    last_commit,             \* run(): hash of the commit sampled last
    samples,                 \* run(): the samples of that commit
    data_source_collector,   \* the two collectors handed to run()
    to_predict_collector,
    calls,                   \* an IssueLifeTimeManager used on its own: the
                             \* calls made on it so far
    team_raw,                \* a DeveloperTeam built on its own: the dict of
                             \* names and user names it is built from,
    team_users,              \* the <<name, user name>> pairs still to add,
    team_members,            \* and DeveloperTeam.members
    users_args,              \* ProjectUsers.run on its own: the pairs still
                             \* to add, and whether the teams are linked
    earlier_runs,            \* the collectors of the engines built and run
                             \* before on the same arguments
    resource_call            \* a call of util.resource_similarity: its
                             \* arguments and its result

vars == <<args, pc, data_source, allowed_issue_types, project_users,
          linked_change_sets_unconstrained, issue_manager, issue_id_to_issue,
          commit_hash_to_change_set, commit_hash_to_issue_ids, event_stream,
          event_nr, last_commit, samples, data_source_collector,
          to_predict_collector, calls, team_raw, team_users, team_members,
          users_args, earlier_runs, resource_call>>

-----------------------------------------------------------------------------
(* Bounds of the model. *)

\* commits are dated on the days 0 .. MaxDay
MaxDay == 1

\* an IssueLifeTimeManager used on its own gets at most MaxCalls calls
MaxCalls == 4

\* a DeveloperTeam built on its own is built from at most MaxPairs pairs
MaxPairs == 4

\* util.resource_similarity is called on lists of at most MaxLen elements
MaxLen == 3

-----------------------------------------------------------------------------
(* Values. *)

NoDate == <<>>
NoUser == -1

Range(s) == {s[i] : i \in DOMAIN s}

Max(a, b) == IF a > b THEN a ELSE b

Abs(x) == IF x < 0 THEN -x ELSE x

\* the elements of a finite set as a list, in every order a python set may
\* be iterated
ListsOf(S) ==
    {l \in [1..Cardinality(S) -> S] : Range(l) = S}

\* d.get(key, None) for a dict kept as a function
HasKey(d, key) == key \in DOMAIN d

\* d.get(key, default) for a dict kept as a sequence of entries
RECURSIVE EntryGet(_, _, _)
EntryGet(d, key, default) ==
    IF d = <<>> THEN default
    ELSE IF Head(d).key = key THEN Head(d).val
    ELSE EntryGet(Tail(d), key, default)

-----------------------------------------------------------------------------
(* util.py *)

date_time_to_timestamp(arg) == arg[1] * 86400 + arg[2]

\* comparison of two date-time strings of the fixed format
DateLess(a, b) == a[1] < b[1] \/ (a[1] = b[1] /\ a[2] < b[2])

\* an optional value: python's None is the empty set
None == {}
Some(x) == {x}
ValueOf(optional) == CHOOSE x \in optional : TRUE

RECURSIVE Gcd(_, _)
Gcd(a, b) == IF b = 0 THEN a ELSE Gcd(b, a % b)

\* the float a / b of two small naturals, kept as the fraction in lowest
\* terms <<numerator, denominator>>
Divide(a, b) == <<a \div Gcd(a, b), b \div Gcd(a, b)>>

\* the int 0, which equals the float 0.0
Zero == <<0, 1>>

\* the similarity that divides by the length of the first list
resource_similarity_by_first(first, second) ==
    LET l1 == Range(first)
        l2 == Range(second)
        l3 == l1 \cap l2
    IN  IF Cardinality(l1) > 0
        THEN Divide(Cardinality(l3), Cardinality(l1)) ELSE Zero

resource_similarity(first, second) ==
    LET l1 == Range(first)
        l2 == Range(second)
        l3 == l1 \cap l2
        len_l1 == Cardinality(l1)
        len_l2 == Cardinality(l2)
    IN  IF len_l1 > len_l2
        THEN (IF len_l1 > 0 THEN Divide(Cardinality(l3), len_l1) ELSE Zero)
        ELSE (IF len_l2 > 0 THEN Divide(Cardinality(l3), len_l2) ELSE Zero)

-----------------------------------------------------------------------------
(* artifact_filter.py *)

ISSUE_TYPE_MAPPING ==
    [t \in {"Bug", "Feature Request", "New Feature", "Enhancement",
            "Improvement", "Sub-task", "Task"} |->
        CASE t = "Bug" -> "bug"
          [] t \in {"Feature Request", "New Feature"} -> "feature"
          [] t \in {"Enhancement", "Improvement"} -> "improvement"
          [] OTHER -> "task"]

SOURCE_FILE_EXTENSIONS ==
    {".java", ".as", ".h", ".hpp", ".hh", ".c", ".cpp", ".cc", ".groovy",
     ".scala"}

issue_type_to_category(issue) ==
    IF issue.type \in DOMAIN ISSUE_TYPE_MAPPING
    THEN ISSUE_TYPE_MAPPING[issue.type] ELSE "None"

is_relevant_issue(issue) ==
    /\ issue_type_to_category(issue) # "None"
    /\ issue.resolution \in {"None", "Done", "Fixed"}
    /\ issue.status \in {"Open", "Reopened", "Resolved", "Closed"}

\* a file path is the pair <<stem, extension>>
is_source_file(file_path) == file_path[2] \in SOURCE_FILE_EXTENSIONS

is_relevant_commit(commit) ==
    Len(SelectSeq(commit.file_path, is_source_file)) > 0

-----------------------------------------------------------------------------
(* user_model.py and io.build_project_users *)

\* the display names of the model, in the order sorted() puts them
NAMES == <<"", "Ann", "Bob", "Cy">>

NameRank(name) == CHOOSE i \in DOMAIN NAMES : NAMES[i] = name

\* python's truth value of an optional string
Falsy(s) == s \in {"None", ""}

MinOf(S) == CHOOSE x \in S : \A y \in S : x <= y

\* the fold that looks for the name first and for the user name second
add_or_update_developer_by_name_first(members, name, user_name) ==
    IF Falsy(name) /\ Falsy(user_name) THEN members
    ELSE LET by_user_name ==
                 {i \in DOMAIN members : user_name \in members[i].user_names}
             by_name == {i \in DOMAIN members : name \in members[i].names}
         IN  IF by_name # {}
             THEN [members EXCEPT
                      ![MinOf(by_name)].user_names = @ \cup {user_name}]
             ELSE IF by_user_name # {}
             THEN [members EXCEPT ![MinOf(by_user_name)].names = @ \cup {name}]
             ELSE Append(members, [number |-> Len(members), names |-> {name},
                                   user_names |-> {user_name}])

\* DeveloperTeam.add_or_update_developer on the member list
add_or_update_developer(members, name, user_name) ==
    IF Falsy(name) /\ Falsy(user_name) THEN members
    ELSE LET by_user_name ==
                 {i \in DOMAIN members : user_name \in members[i].user_names}
             by_name == {i \in DOMAIN members : name \in members[i].names}
         IN  IF by_user_name # {}
             THEN [members EXCEPT ![MinOf(by_user_name)].names = @ \cup {name}]
             ELSE IF by_name # {}
             THEN [members EXCEPT
                      ![MinOf(by_name)].user_names = @ \cup {user_name}]
             ELSE Append(members, [number |-> Len(members), names |-> {name},
                                   user_names |-> {user_name}])

\* the loops of ProjectUsers.run over a list of <<name, user name>> pairs
RECURSIVE add_developers(_, _)
add_developers(members, users) ==
    IF users = <<>> THEN members
    ELSE add_developers(
             add_or_update_developer(members, Head(users)[1], Head(users)[2]),
             Tail(users))

\* the loop over the jira members that leaves a matched git member among
\* the remaining ones
RECURSIVE link_jira_members_without_remove(_, _, _, _)
link_jira_members_without_remove(jira_members, git_members, remaining_git_ids, team_links) ==
    IF jira_members = <<>>
    THEN team_links \o
         [k \in DOMAIN remaining_git_ids |->
             [jira_idx |-> NoUser, git_idx |-> remaining_git_ids[k]]]
    ELSE LET jira_dev == Head(jira_members)
             hits == {k \in DOMAIN remaining_git_ids :
                         jira_dev.names \cap
                         git_members[remaining_git_ids[k] + 1].names # {}}
         IN  link_jira_members_without_remove(
                 Tail(jira_members), git_members, remaining_git_ids,
                 Append(team_links,
                        [jira_idx |-> jira_dev.number,
                         git_idx |-> IF hits = {} THEN NoUser
                                     ELSE remaining_git_ids[MinOf(hits)]]))

\* ProjectUsers.link_teams: one round of the loop over the jira members
RECURSIVE link_jira_members(_, _, _, _)
link_jira_members(jira_members, git_members, remaining_git_ids, team_links) ==
    IF jira_members = <<>>
    THEN team_links \o
         [k \in DOMAIN remaining_git_ids |->
             [jira_idx |-> NoUser, git_idx |-> remaining_git_ids[k]]]
    ELSE LET jira_dev == Head(jira_members)
             hits == {k \in DOMAIN remaining_git_ids :
                         jira_dev.names \cap
                         git_members[remaining_git_ids[k] + 1].names # {}}
         IN  IF hits # {}
             THEN LET k == MinOf(hits)
                  IN  link_jira_members(
                          Tail(jira_members), git_members,
                          SelectSeq(remaining_git_ids,
                                    LAMBDA idx : idx # remaining_git_ids[k]),
                          Append(team_links,
                                 [jira_idx |-> jira_dev.number,
                                  git_idx |-> git_members[remaining_git_ids[k] + 1].number]))
             ELSE link_jira_members(
                      Tail(jira_members), git_members, remaining_git_ids,
                      Append(team_links, [jira_idx |-> jira_dev.number,
                                          git_idx |-> NoUser]))

\* link_teams without its last loop, over the remaining git members
link_teams_of_jira_members(jira_members, git_members) ==
    SelectSeq(link_jira_members(jira_members, git_members,
                                [k \in DOMAIN git_members |->
                                    git_members[k].number],
                                <<>>),
              LAMBDA link : link.jira_idx # NoUser)

link_teams(jira_members, git_members) ==
    link_jira_members(jira_members, git_members,
                      [k \in DOMAIN git_members |-> git_members[k].number],
                      <<>>)

\* ProjectUsers.run on a fresh object
ProjectUsers_run(jira_users, git_users) ==
    LET jira_members == add_developers(<<>>, jira_users)
        git_members == add_developers(<<>>, git_users)
    IN  [jira_team |-> jira_members, git_team |-> git_members,
         team_links |-> link_teams(jira_members, git_members)]

\* the outcome of a call of get_link_id: the exception it raises ("None"
\* when it returns) and the value it returns (NoUser is python's None)
ReturnedId(value) == [exception |-> "None", value |-> value]
RaisedId(exception) == [exception |-> exception, value |-> NoUser]

\* the loop of ProjectUsers.get_link_id from the link at place idx on: the
\* test of the team name is made once per link, inside the loop
RECURSIVE get_link_id_from(_, _, _, _)
get_link_id_from(users, user_name, team_name, idx) ==
    IF idx > Len(users.team_links) THEN ReturnedId(NoUser)
    ELSE LET linked_developer == users.team_links[idx]
         IN  IF team_name = "jira"
             THEN IF /\ linked_developer.jira_idx # NoUser
                     /\ user_name \in
                        users.jira_team[linked_developer.jira_idx + 1].user_names
                  THEN ReturnedId(idx - 1)
                  ELSE get_link_id_from(users, user_name, team_name, idx + 1)
             ELSE IF team_name = "git"
             THEN IF /\ linked_developer.git_idx # NoUser
                     /\ user_name \in
                        users.git_team[linked_developer.git_idx + 1].user_names
                  THEN ReturnedId(idx - 1)
                  ELSE get_link_id_from(users, user_name, team_name, idx + 1)
             ELSE RaisedId("ValueError")

\* ProjectUsers.get_link_id
get_link_id(users, user_name, team_name) == get_link_id_from(users, user_name, team_name, 1)

\* sorted(_flatten(raw), key=itemgetter(0)): the pairs by ascending name;
\* the user names of one name follow in the order of a python set
RECURSIVE sorted_flatten(_, _)
sorted_flatten(raw, rank) ==
    IF rank > Len(NAMES) THEN {<<>>}
    ELSE LET name == NAMES[rank]
             rest == sorted_flatten(raw, rank + 1)
         IN  IF name \notin DOMAIN raw THEN rest
             ELSE {[k \in DOMAIN l |-> <<name, l[k]>>] \o r :
                      l \in ListsOf(raw[name]), r \in rest}

\* io.build_project_users: every ProjectUsers object it can return
build_project_users(project_data) ==
    LET assigned == SelectSeq(project_data.issues,
                              LAMBDA issue : ~Falsy(issue.assignee))
        jira_raw == [name \in {i.assignee : i \in Range(assigned)} |->
                        {i.assignee_username :
                            i \in {j \in Range(assigned) : j.assignee = name}}]
        git_raw == [name \in {c.author : c \in Range(project_data.change_sets)} |->
                       {c.author_email :
                           c \in {d \in Range(project_data.change_sets) :
                                     d.author = name}}]
    IN  {ProjectUsers_run(jira_users, git_users) :
            jira_users \in sorted_flatten(jira_raw, 1),
            git_users \in sorted_flatten(git_raw, 1)}

-----------------------------------------------------------------------------
(* event.py *)

TIME_STAMP_OFFSET == -946684800

\* _DATE_TIME_FAR_IN_FUTURE = "2030-12-31T23:59:59Z"
DATE_TIME_FAR_IN_FUTURE == <<22279, 86399>>

jira_create_offset_seconds == 0
\* the resolve events without the half hour of delay
jira_resolve_offset_seconds_without_delay == jira_create_offset_seconds

jira_resolve_offset_seconds == 30 * 60
git_commit_offset_seconds == 0

JiraEvent(date_time, time_stamp, issue_id, action) ==
    [type |-> "JiraEvent", date_time |-> date_time, time_stamp |-> time_stamp,
     issue_id |-> issue_id, action |-> action, commit_hash |-> "None"]

GitEvent(date_time, time_stamp, commit_hash) ==
    [type |-> "GitEvent", date_time |-> date_time, time_stamp |-> time_stamp,
     issue_id |-> "None", action |-> "None", commit_hash |-> commit_hash]

new_issue_created_event(offset, issue) ==
    JiraEvent(issue.created_date,
              date_time_to_timestamp(issue.created_date) + offset,
              issue.id, "create")

\* the resolve event without the offset of the resolution
new_issue_resolved_event_without_offset(offset, issue) ==
    LET resolved_date == IF issue.resolved_date = NoDate
                         THEN DATE_TIME_FAR_IN_FUTURE ELSE issue.resolved_date
    IN  JiraEvent(resolved_date,
                  date_time_to_timestamp(resolved_date) + TIME_STAMP_OFFSET,
                  issue.id, "resolve")

new_issue_resolved_event(offset, issue) ==
    LET resolved_date == IF issue.resolved_date = NoDate
                         THEN DATE_TIME_FAR_IN_FUTURE ELSE issue.resolved_date
    IN  JiraEvent(resolved_date, date_time_to_timestamp(resolved_date) + offset,
                  issue.id, "resolve")

new_git_event(offset, commit) ==
    GitEvent(commit.committed_date,
             date_time_to_timestamp(commit.committed_date) + offset,
             commit.commit_hash)

RECURSIVE generate_jira_events(_)
generate_jira_events(issues) ==
    IF issues = <<>> THEN <<>>
    ELSE << new_issue_created_event(
                jira_create_offset_seconds + TIME_STAMP_OFFSET, Head(issues)),
            new_issue_resolved_event(
                jira_resolve_offset_seconds + TIME_STAMP_OFFSET, Head(issues)) >>
         \o generate_jira_events(Tail(issues))

generate_git_events(change_sets) ==
    [k \in DOMAIN change_sets |->
        new_git_event(git_commit_offset_seconds + TIME_STAMP_OFFSET,
                      change_sets[k])]

\* the stream left in the order of generation
events_unsorted(events) == events

\* a sort that puts an event before the earlier events of its time stamp
RECURSIVE sort_ties_reversed(_)
sort_ties_reversed(events) ==
    IF events = <<>> THEN <<>>
    ELSE LET e == events[Len(events)]
             front == sort_ties_reversed(SubSeq(events, 1, Len(events) - 1))
         IN  SelectSeq(front, LAMBDA x : x.time_stamp < e.time_stamp)
             \o <<e>> \o
             SelectSeq(front, LAMBDA x : x.time_stamp >= e.time_stamp)

\* list.sort(key=lambda e: e.time_stamp): a stable sort
RECURSIVE sort_by_time_stamp(_)
sort_by_time_stamp(events) ==
    IF events = <<>> THEN <<>>
    ELSE LET e == events[Len(events)]
             front == sort_by_time_stamp(SubSeq(events, 1, Len(events) - 1))
         IN  SelectSeq(front, LAMBDA x : x.time_stamp <= e.time_stamp)
             \o <<e>> \o
             SelectSeq(front, LAMBDA x : x.time_stamp > e.time_stamp)

\* EventStreamCreator.generate: the new value of event_stream
generate(ds) ==
    sort_by_time_stamp(generate_jira_events(ds.issues)
                       \o generate_git_events(ds.change_sets))

-----------------------------------------------------------------------------
(* profile.py: IssueLifeTimeManager *)

IssueLifeTimeManager == [resolved_issues |-> <<>>, current_open_issues |-> <<>>]

\* create_issue without the test for an open issue
create_issue_unchecked(manager, issue_id) ==
    [manager EXCEPT !.current_open_issues = Append(@, issue_id)]

\* resolve_issue that records an issue only when it was open
resolve_open_issue(manager, issue_id) ==
    [current_open_issues |->
         SelectSeq(manager.current_open_issues, LAMBDA e : e # issue_id),
     resolved_issues |->
         IF \/ issue_id \in Range(manager.resolved_issues)
            \/ issue_id \notin Range(manager.current_open_issues)
         THEN manager.resolved_issues
         ELSE Append(manager.resolved_issues, issue_id)]

\* resolve_issue that leaves the issue among the open ones
resolve_issue_without_remove(manager, issue_id) ==
    [manager EXCEPT
        !.resolved_issues = IF issue_id \in Range(@) THEN @
                            ELSE Append(@, issue_id)]

create_issue(manager, issue_id) ==
    IF issue_id \in Range(manager.current_open_issues) THEN manager
    ELSE [manager EXCEPT !.current_open_issues = Append(@, issue_id)]

resolve_issue(manager, issue_id) ==
    [current_open_issues |->
         SelectSeq(manager.current_open_issues, LAMBDA e : e # issue_id),
     resolved_issues |->
         IF issue_id \in Range(manager.resolved_issues)
         THEN manager.resolved_issues
         ELSE Append(manager.resolved_issues, issue_id)]

-----------------------------------------------------------------------------
(* profile.py: preparing and filtering the data source *)

DataSource(issues, issue_to_change_set, change_sets) ==
    [issues |-> issues, issue_to_change_set |-> issue_to_change_set,
     change_sets |-> change_sets]

\* the filtered commit built anew, without the to-predict mark
source_files_only_unmarked(commit) ==
    [commit EXCEPT !.file_path = SelectSeq(commit.file_path, is_source_file),
                   !.to_predict = FALSE]

\* one round of the loop of _filter_change_sets: the deep copy of the commit
\* (the to-predict mark included) with its source files only
source_files_only(commit) ==
    [commit EXCEPT !.file_path = SelectSeq(commit.file_path, is_source_file)]

filter_change_sets(change_sets) ==
    SelectSeq([k \in DOMAIN change_sets |-> source_files_only(change_sets[k])],
              is_relevant_commit)

add_mapped_type(issue) ==
    [id |-> issue.id, created_date |-> issue.created_date,
     resolved_date |-> issue.resolved_date, type |-> issue.type,
     resolution |-> issue.resolution, status |-> issue.status,
     assignee |-> issue.assignee, assignee_username |-> issue.assignee_username,
     mapped_type |-> issue_type_to_category(issue)]

\* the loop of _filter_data_source over the links; list(valid_ids) lists a
\* python set, in any order
RECURSIVE filter_issue_to_change_set(_, _, _)
filter_issue_to_change_set(entries, used_issue_ids, used_change_set_ids) ==
    IF entries = <<>> THEN {<<>>}
    ELSE LET e == Head(entries)
             rest == filter_issue_to_change_set(Tail(entries), used_issue_ids,
                                                used_change_set_ids)
             valid_ids == used_change_set_ids \cap Range(e.val)
         IN  IF e.key \notin used_issue_ids \/ valid_ids = {} THEN rest
             ELSE {<<[key |-> e.key, val |-> l]>> \o r :
                      l \in ListsOf(valid_ids), r \in rest}

\* _filter_data_source with the DefaultFilter: every data source it can return
filter_data_source(ds) ==
    LET relevant == SelectSeq(ds.issues, is_relevant_issue)
        issues == [k \in DOMAIN relevant |-> add_mapped_type(relevant[k])]
        used_issue_ids == {issue.id : issue \in Range(issues)}
        change_sets == filter_change_sets(ds.change_sets)
        used_change_set_ids == {c.commit_hash : c \in Range(change_sets)}
    IN  {DataSource(issues, issue_to_change_set, change_sets) :
            issue_to_change_set \in
                filter_issue_to_change_set(ds.issue_to_change_set, used_issue_ids,
                                           used_change_set_ids)}

all_linked_changed_sets(ds) ==
    UNION {Range(ds.issue_to_change_set[i].val) : i \in DOMAIN ds.issue_to_change_set}

mark_as_to_predict(d) == [d EXCEPT !.to_predict = TRUE]

is_marked_as_to_predict(d) == d.to_predict

\* a check that finds no overlap
commit_hashes_never_overlap(ds, new_change_sets) == FALSE

\* the check of _prepare_data_source that raises ValueError
commit_hashes_overlap(ds, new_change_sets) ==
    {c.commit_hash : c \in Range(ds.change_sets)}
        \cap {c.commit_hash : c \in Range(new_change_sets)} # {}

\* _prepare_data_source when it does not raise
prepare_data_source(ds, new_change_sets) ==
    filter_data_source(
        DataSource(ds.issues, ds.issue_to_change_set,
                   ds.change_sets \o
                   [k \in DOMAIN new_change_sets |->
                       mark_as_to_predict(new_change_sets[k])]))

-----------------------------------------------------------------------------
(* profile.py: the lookups built by ProfileGenerator.run *)

MAX_DIFFERENCE_BETWEEN_RESOLVED_AND_COMMITTED_SEC == 129600

\* the sentinel taken from the size of the tracker roster
unknown_jira_user_id_of_roster == Len(project_users.jira_team) + 1

\* sample._same_users; NoUser is python's None
same_users(user_id_1, user_id_2) ==
    IF user_id_1 = NoUser \/ user_id_2 = NoUser THEN None
    ELSE Some(user_id_1 = user_id_2)

unknown_jira_user_id == Len(project_users.team_links)
\* the version-control sentinel without the increment
unknown_git_user_id_without_increment == unknown_jira_user_id

unknown_git_user_id == unknown_jira_user_id + 1

\* issue["user_id"] = user_id on the deep copy of an issue
issue_with_user_id(issue, user_id) ==
    [id |-> issue.id, created_date |-> issue.created_date,
     resolved_date |-> issue.resolved_date, type |-> issue.type,
     resolution |-> issue.resolution, status |-> issue.status,
     assignee |-> issue.assignee, assignee_username |-> issue.assignee_username,
     mapped_type |-> issue.mapped_type, user_id |-> user_id]

\* commit["user_id"] = user_id on the deep copy of a commit
commit_with_user_id(commit, user_id) ==
    [commit_hash |-> commit.commit_hash, author |-> commit.author,
     author_email |-> commit.author_email,
     committed_date |-> commit.committed_date, file_path |-> commit.file_path,
     to_predict |-> commit.to_predict, user_id |-> user_id]

\* the value a dict holds for a key written once per listed element: the
\* last element of the list with that key
LastOf(hits) == hits[Len(hits)]

build_issue_lookup ==
    LET allowed == SelectSeq(data_source.issues,
                             LAMBDA i : i.mapped_type \in Range(allowed_issue_types))
    IN  [id \in {i.id : i \in Range(allowed)} |->
            LET raw_issue == LastOf(SelectSeq(allowed, LAMBDA i : i.id = id))
                user_id == get_link_id(project_users, raw_issue.assignee_username,
                                       "jira").value
            IN  issue_with_user_id(raw_issue,
                                   IF user_id = NoUser THEN unknown_jira_user_id
                                   ELSE user_id)]

build_change_set_lookup ==
    [h \in {c.commit_hash : c \in Range(data_source.change_sets)} |->
        LET raw_commit == LastOf(SelectSeq(data_source.change_sets,
                                           LAMBDA c : c.commit_hash = h))
            user_id == get_link_id(project_users, raw_commit.author_email,
                                   "git").value
        IN  commit_with_user_id(raw_commit,
                                IF user_id = NoUser THEN unknown_git_user_id
                                ELSE user_id)]

\* the keys of a dict are distinct, so an issue id is appended once a commit
build_change_set_issue_inverse_lookup ==
    LET entries == data_source.issue_to_change_set
    IN  [h \in UNION {Range(entries[i].val) : i \in DOMAIN entries} |->
            LET linking == SelectSeq(entries, LAMBDA e : h \in Range(e.val))
            IN  [k \in DOMAIN linking |-> linking[k].key]]

-----------------------------------------------------------------------------
(* profile.py: ProfileGenerator *)

\* the filter that lets every commit event pass
is_relevant_event_any_commit(event) ==
    IF event.type = "GitEvent" THEN TRUE
    ELSE IF event.type = "JiraEvent"
    THEN /\ HasKey(issue_id_to_issue, event.issue_id)
         /\ issue_id_to_issue[event.issue_id].mapped_type
                \in Range(allowed_issue_types)
    ELSE FALSE

\* the filter that asks every linked issue of a commit to be in scope
is_relevant_event_all_issues(event) ==
    IF event.type = "GitEvent"
    THEN IF ~HasKey(commit_hash_to_issue_ids, event.commit_hash)
         THEN event.commit_hash \notin linked_change_sets_unconstrained
         ELSE \A k \in DOMAIN commit_hash_to_issue_ids[event.commit_hash] :
                 LET issue_id == commit_hash_to_issue_ids[event.commit_hash][k]
                 IN  /\ HasKey(issue_id_to_issue, issue_id)
                     /\ issue_id_to_issue[issue_id].mapped_type
                            \in Range(allowed_issue_types)
    ELSE IF event.type = "JiraEvent"
    THEN /\ HasKey(issue_id_to_issue, event.issue_id)
         /\ issue_id_to_issue[event.issue_id].mapped_type
                \in Range(allowed_issue_types)
    ELSE FALSE

\* the filter that lets the events of every issue pass
is_relevant_event_any_issue(event) ==
    IF event.type = "GitEvent"
    THEN IF ~HasKey(commit_hash_to_issue_ids, event.commit_hash)
         THEN event.commit_hash \notin linked_change_sets_unconstrained
         ELSE \E k \in DOMAIN commit_hash_to_issue_ids[event.commit_hash] :
                 LET issue_id == commit_hash_to_issue_ids[event.commit_hash][k]
                 IN  /\ HasKey(issue_id_to_issue, issue_id)
                     /\ issue_id_to_issue[issue_id].mapped_type
                            \in Range(allowed_issue_types)
    ELSE event.type = "JiraEvent"

is_relevant_event(event) ==
    IF event.type = "GitEvent"
    THEN IF ~HasKey(commit_hash_to_issue_ids, event.commit_hash)
         THEN event.commit_hash \notin linked_change_sets_unconstrained
         ELSE \E k \in DOMAIN commit_hash_to_issue_ids[event.commit_hash] :
                 LET issue_id == commit_hash_to_issue_ids[event.commit_hash][k]
                 IN  /\ HasKey(issue_id_to_issue, issue_id)
                     /\ issue_id_to_issue[issue_id].mapped_type
                            \in Range(allowed_issue_types)
    ELSE IF event.type = "JiraEvent"
    THEN /\ HasKey(issue_id_to_issue, event.issue_id)
         /\ issue_id_to_issue[event.issue_id].mapped_type
                \in Range(allowed_issue_types)
    ELSE FALSE

\* the issues of the user counted over the whole lookup
number_of_issues_assigned_to_user(user_id) ==
    Cardinality({issue_id \in DOMAIN issue_id_to_issue :
                    user_id = issue_id_to_issue[issue_id].user_id})

get_number_of_currently_open_issues_assigned_to_user(user_id) ==
    Len(SelectSeq(issue_manager.current_open_issues,
                  LAMBDA issue_id :
                      /\ HasKey(issue_id_to_issue, issue_id)
                      /\ user_id = issue_id_to_issue[issue_id].user_id))

\* the label set for every issue as soon as the commit has a link
is_linked_to_any_issue(commit_hash, issue_id) ==
    /\ HasKey(commit_hash_to_issue_ids, commit_hash)
    /\ commit_hash_to_issue_ids[commit_hash] # <<>>

\* the label of create_training_sample
is_linked(commit_hash, issue_id) ==
    /\ HasKey(commit_hash_to_issue_ids, commit_hash)
    /\ issue_id \in Range(commit_hash_to_issue_ids[commit_hash])

\* the similarity handlers the engine is built with: get_sim returns a
\* similarity, in hundredths, or None
code_to_issue_lsi(issue_id, commit_hash, file_path) ==
    IF issue_id = "I1" /\ commit_hash = "c1"
    THEN (IF file_path[1] = "src/Main" THEN Some(30) ELSE Some(70))
    ELSE IF issue_id = "I1" /\ commit_hash = "c2" THEN Some(-10)
    ELSE None

code_to_issue_vsm_ngram(issue_id, commit_hash, file_path) ==
    IF issue_id = "I1" /\ commit_hash = "c1" /\ file_path[1] = "src/Main"
    THEN Some(50) ELSE None

commit_to_issue_vsm_ngram(issue_id, commit_hash) ==
    IF issue_id = "I1" /\ commit_hash = "c1" THEN Some(20) ELSE None

trace_metric(issue_id, commit_hash, file_path) ==
    IF issue_id = "I2" /\ file_path[1] = "src/Util" THEN Some(40) ELSE None

\* handler.get_sim for the handler of the given name
get_sim(handler, issue_id, commit_hash, file_path) ==
    CASE handler = "code_to_issue_lsi" ->
             code_to_issue_lsi(issue_id, commit_hash, file_path)
      [] handler = "code_to_issue_vsm_ngram" ->
             code_to_issue_vsm_ngram(issue_id, commit_hash, file_path)
      [] OTHER -> trace_metric(issue_id, commit_hash, file_path)

NO_SIMILARITY == 0

MaxOf(S) == CHOOSE x \in S : \A y \in S : y <= x

\* the maximum taken over the similarities and the default
get_maximum_text_similarity_or_default(handler, issue_id, commit_hash, file_paths, default) ==
    MaxOf({default} \cup
          UNION {get_sim(handler, issue_id, commit_hash, file_paths[k]) :
                    k \in DOMAIN file_paths})

\* _get_maximum_text_similarity
get_maximum_text_similarity(handler, issue_id, commit_hash, file_paths, default) ==
    LET sim_values == UNION {get_sim(handler, issue_id, commit_hash,
                                     file_paths[k]) : k \in DOMAIN file_paths}
    IN  IF sim_values = {} THEN default ELSE MaxOf(sim_values)

\* the value assign_text_similarities gives to the commit-to-issue feature
commit_to_issue_similarity(commit, issue) ==
    LET value == commit_to_issue_vsm_ngram(issue.id, commit.commit_hash)
    IN  IF value # None THEN ValueOf(value) ELSE NO_SIMILARITY

\* the count that takes the commits of the same instant too
get_number_of_links_to_issue_until(issue_id, date_time_before) ==
    LET linked_commit_hashes ==
            EntryGet(data_source.issue_to_change_set, issue_id, <<>>)
    IN  Len(SelectSeq(linked_commit_hashes,
                      LAMBDA commit_hash :
                          /\ HasKey(commit_hash_to_change_set, commit_hash)
                          /\ ~DateLess(date_time_before,
                                       commit_hash_to_change_set[commit_hash]
                                           .committed_date)))

get_number_of_links_to_issue_before(issue_id, date_time_before) ==
    LET linked_commit_hashes ==
            EntryGet(data_source.issue_to_change_set, issue_id, <<>>)
    IN  Len(SelectSeq(linked_commit_hashes,
                      LAMBDA commit_hash :
                          /\ HasKey(commit_hash_to_change_set, commit_hash)
                          /\ DateLess(commit_hash_to_change_set[commit_hash]
                                          .committed_date,
                                      date_time_before)))

\* sorted(linked_commits, key=lambda c: c["committed_date"]): a stable sort
RECURSIVE sort_by_committed_date(_)
sort_by_committed_date(commits) ==
    IF commits = <<>> THEN <<>>
    ELSE LET c == commits[Len(commits)]
             front == sort_by_committed_date(SubSeq(commits, 1, Len(commits) - 1))
         IN  SelectSeq(front, LAMBDA x :
                           ~DateLess(c.committed_date, x.committed_date))
             \o <<c>> \o
             SelectSeq(front, LAMBDA x :
                           DateLess(c.committed_date, x.committed_date))

\* the backward search that takes the commits of the same instant too
RECURSIVE previous_commits_or_same_instant(_, _)
previous_commits_or_same_instant(sorted_linked_commits, committed_date) ==
    IF sorted_linked_commits = <<>> THEN <<>>
    ELSE IF ~DateLess(committed_date, Head(sorted_linked_commits).committed_date)
    THEN <<Head(sorted_linked_commits)>>
         \o previous_commits_or_same_instant(Tail(sorted_linked_commits),
                                             committed_date)
    ELSE <<>>

\* itertools.takewhile(lambda c: c["committed_date"] < committed_date, ...)
RECURSIVE previous_commits(_, _)
previous_commits(sorted_linked_commits, committed_date) ==
    IF sorted_linked_commits = <<>> THEN <<>>
    ELSE IF DateLess(Head(sorted_linked_commits).committed_date, committed_date)
    THEN <<Head(sorted_linked_commits)>>
         \o previous_commits(Tail(sorted_linked_commits), committed_date)
    ELSE <<>>

\* the forward search that skips the earlier commits only
RECURSIVE next_commits_or_same_instant(_, _)
next_commits_or_same_instant(sorted_linked_commits, committed_date) ==
    IF sorted_linked_commits = <<>> THEN <<>>
    ELSE IF DateLess(Head(sorted_linked_commits).committed_date, committed_date)
    THEN next_commits_or_same_instant(Tail(sorted_linked_commits),
                                      committed_date)
    ELSE sorted_linked_commits

\* itertools.dropwhile(lambda c: c["committed_date"] <= committed_date, ...)
RECURSIVE next_commits(_, _)
next_commits(sorted_linked_commits, committed_date) ==
    IF sorted_linked_commits = <<>> THEN <<>>
    ELSE IF ~DateLess(committed_date, Head(sorted_linked_commits).committed_date)
    THEN next_commits(Tail(sorted_linked_commits), committed_date)
    ELSE sorted_linked_commits

\* the descriptor of a sample without linked commit
no_linked_commit ==
    [time_difference |-> None, resource_overlap |-> None,
     committer_user_id |-> None]

linked_commit(time_difference, commit, other) ==
    [time_difference |-> Some(time_difference),
     resource_overlap |->
         Some(resource_similarity(commit.file_path, other.file_path)),
     committer_user_id |-> Some(other.user_id)]

\* check_previous_and_next_commits: the two descriptors of the sample
check_previous_and_next_commits(commit, issue) ==
    LET linked_commit_hashes ==
            SelectSeq(EntryGet(data_source.issue_to_change_set, issue.id, <<>>),
                      LAMBDA h : HasKey(commit_hash_to_change_set, h))
        linked_commits ==
            [k \in DOMAIN linked_commit_hashes |->
                commit_hash_to_change_set[linked_commit_hashes[k]]]
        sorted_linked_commits == sort_by_committed_date(linked_commits)
        previous == previous_commits(sorted_linked_commits, commit.committed_date)
        next == next_commits(sorted_linked_commits, commit.committed_date)
        t1 == date_time_to_timestamp(commit.committed_date)
    IN  [previous |->
             IF Len(previous) > 0
             THEN LET previous_commit == previous[Len(previous)]
                  IN  linked_commit(
                          t1 - date_time_to_timestamp(
                                   previous_commit.committed_date),
                          commit, previous_commit)
             ELSE no_linked_commit,
         next |->
             IF Len(next) > 0
             THEN LET next_commit == next[1]
                  IN  linked_commit(
                          date_time_to_timestamp(next_commit.committed_date)
                              - t1,
                          commit, next_commit)
             ELSE no_linked_commit]

\* create_training_sample up to its sanity assertion; life time is None
\* (here FALSE) until the caller sets it
create_training_sample(commit, issue) ==
    [f00_commit_hash |-> commit.commit_hash,
     f01_issue_id |-> issue.id,
     date_time |-> commit.committed_date,
     f99_is_linked |-> is_linked(commit.commit_hash, issue.id),
     f03_commit_user_id |-> commit.user_id,
     f04_issue_user_id |-> issue.user_id,
     f06_is_commit_within_issue_life_time |-> FALSE,
     f11_num_commits_to_this_issues |->
         get_number_of_links_to_issue_before(issue.id, commit.committed_date),
     f12_num_open_issues_at_commit_time |->
         Len(issue_manager.current_open_issues),
     f13_num_open_issues_from_committer_at_commit_time |->
         get_number_of_currently_open_issues_assigned_to_user(commit.user_id),
     f14_time_difference_issue_creation_and_commit |->
         date_time_to_timestamp(commit.committed_date)
             - date_time_to_timestamp(issue.created_date),
     f15_time_difference_commit_and_issue_resolve |->
         IF issue.resolved_date # NoDate
         THEN Some(date_time_to_timestamp(issue.resolved_date)
                       - date_time_to_timestamp(commit.committed_date))
         ELSE None,
     f30_max_similarity_code_to_issue_lsi |->
         get_maximum_text_similarity("code_to_issue_lsi", issue.id,
                                     commit.commit_hash, commit.file_path,
                                     NO_SIMILARITY),
     f31_max_similarity_code_to_issue_vsm_with_ngram |->
         get_maximum_text_similarity("code_to_issue_vsm_ngram", issue.id,
                                     commit.commit_hash, commit.file_path,
                                     NO_SIMILARITY),
     f32_similarity_commit_to_issue_vsm_with_ngram |->
         commit_to_issue_similarity(commit, issue),
     f40_max_trace_similarity |->
         get_maximum_text_similarity("trace_metric", issue.id,
                                     commit.commit_hash, commit.file_path,
                                     NO_SIMILARITY),
     f07_09_previous_linked_commit |->
         check_previous_and_next_commits(commit, issue).previous,
     f17_19_next_linked_commit |->
         check_previous_and_next_commits(commit, issue).next]

\* the sanity assertion of create_training_sample
sanity(sample) ==
    sample.f13_num_open_issues_from_committer_at_commit_time
        <= sample.f12_num_open_issues_at_commit_time

\* the result of a call: the exception raised ("None" when it returns) and
\* the samples built
Returned(list) == [raised |-> "None", samples |-> list]
Raised(exception) == [raised |-> exception, samples |-> <<>>]

\* the branch of create_samples_for_change_set for a linked training commit
RECURSIVE samples_for_linked_issues(_, _, _)
samples_for_linked_issues(commit, linked_issue_ids, list) ==
    IF linked_issue_ids = <<>> THEN Returned(list)
    ELSE LET issue_id == Head(linked_issue_ids)
         IN  IF /\ HasKey(issue_id_to_issue, issue_id)
                /\ issue_id_to_issue[issue_id].mapped_type
                       \in Range(allowed_issue_types)
             THEN LET sample ==
                          create_training_sample(commit, issue_id_to_issue[issue_id])
                  IN  IF ~sanity(sample) THEN Raised("AssertionError")
                      ELSE samples_for_linked_issues(
                               commit, Tail(linked_issue_ids),
                               Append(list,
                                   [sample EXCEPT
                                       !.f06_is_commit_within_issue_life_time =
                                           issue_id \in Range(
                                               issue_manager.current_open_issues)]))
             ELSE samples_for_linked_issues(commit, Tail(linked_issue_ids), list)

\* the loop over the active issues that leaves the life time unset
RECURSIVE samples_for_open_issues_unmarked(_, _, _)
samples_for_open_issues_unmarked(commit, open_issues, list) ==
    IF open_issues = <<>> THEN Returned(list)
    ELSE LET issue_id == Head(open_issues)
         IN  IF ~HasKey(issue_id_to_issue, issue_id)
             THEN samples_for_open_issues_unmarked(commit, Tail(open_issues), list)
             ELSE LET sample ==
                          create_training_sample(commit, issue_id_to_issue[issue_id])
                  IN  IF ~sanity(sample) THEN Raised("AssertionError")
                      ELSE samples_for_open_issues_unmarked(
                               commit, Tail(open_issues), Append(list, sample))

\* the loop "samples for all active issues"
RECURSIVE samples_for_open_issues(_, _, _)
samples_for_open_issues(commit, open_issues, list) ==
    IF open_issues = <<>> THEN Returned(list)
    ELSE LET issue_id == Head(open_issues)
         IN  IF ~HasKey(issue_id_to_issue, issue_id)
             THEN samples_for_open_issues(commit, Tail(open_issues), list)
             ELSE LET sample ==
                          create_training_sample(commit, issue_id_to_issue[issue_id])
                  IN  IF ~sanity(sample) THEN Raised("AssertionError")
                      ELSE samples_for_open_issues(
                               commit, Tail(open_issues),
                               Append(list,
                                   [sample EXCEPT
                                       !.f06_is_commit_within_issue_life_time = TRUE]))

\* the window with its bound included
resolved_near_commit_inclusive(commit, issue) ==
    Abs(date_time_to_timestamp(commit.committed_date)
            - date_time_to_timestamp(issue.resolved_date))
        <= MAX_DIFFERENCE_BETWEEN_RESOLVED_AND_COMMITTED_SEC

\* the condition "only consider issues resolved a given time before commit"
resolved_near_commit(commit, issue) ==
    Abs(date_time_to_timestamp(commit.committed_date)
            - date_time_to_timestamp(issue.resolved_date))
        < MAX_DIFFERENCE_BETWEEN_RESOLVED_AND_COMMITTED_SEC

\* the loop "samples for previous issues"; date_time_to_timestamp raises
\* ValueError on a missing resolved date
RECURSIVE samples_for_resolved_issues(_, _, _)
samples_for_resolved_issues(commit, resolved_issues, list) ==
    IF resolved_issues = <<>> THEN Returned(list)
    ELSE LET issue_id == Head(resolved_issues)
         IN  IF ~HasKey(issue_id_to_issue, issue_id)
             THEN samples_for_resolved_issues(commit, Tail(resolved_issues), list)
             ELSE LET issue == issue_id_to_issue[issue_id]
                      sample == create_training_sample(commit, issue)
                  IN  IF issue.resolved_date = NoDate THEN Raised("ValueError")
                      ELSE IF ~resolved_near_commit(commit, issue)
                      THEN samples_for_resolved_issues(
                               commit, Tail(resolved_issues), list)
                      ELSE IF ~sanity(sample) THEN Raised("AssertionError")
                      ELSE samples_for_resolved_issues(
                               commit, Tail(resolved_issues), Append(list, sample))

\* the branch of a linked training commit without its return statement
create_samples_without_return(commit_hash) ==
    IF ~HasKey(commit_hash_to_change_set, commit_hash) THEN Raised("ValueError")
    ELSE LET commit == commit_hash_to_change_set[commit_hash]
             is_training == ~is_marked_as_to_predict(commit)
             linked ==
                 IF /\ is_training
                    /\ HasKey(commit_hash_to_issue_ids, commit_hash)
                    /\ commit_hash_to_issue_ids[commit_hash] # <<>>
                 THEN samples_for_linked_issues(
                          commit, commit_hash_to_issue_ids[commit_hash], <<>>)
                 ELSE Returned(<<>>)
             active ==
                 samples_for_open_issues(
                     commit, issue_manager.current_open_issues, linked.samples)
         IN  IF linked.raised # "None" THEN linked
             ELSE IF active.raised # "None" THEN active
             ELSE samples_for_resolved_issues(
                      commit, issue_manager.resolved_issues, active.samples)

create_samples_for_change_set(commit_hash) ==
    IF ~HasKey(commit_hash_to_change_set, commit_hash) THEN Raised("ValueError")
    ELSE LET commit == commit_hash_to_change_set[commit_hash]
             is_training == ~is_marked_as_to_predict(commit)
         IN  IF /\ is_training
                /\ HasKey(commit_hash_to_issue_ids, commit_hash)
                /\ commit_hash_to_issue_ids[commit_hash] # <<>>
             THEN samples_for_linked_issues(
                      commit, commit_hash_to_issue_ids[commit_hash], <<>>)
             ELSE LET active == samples_for_open_issues(
                                    commit, issue_manager.current_open_issues, <<>>)
                  IN  IF active.raised # "None" THEN active
                      ELSE samples_for_resolved_issues(
                               commit, issue_manager.resolved_issues,
                               active.samples)

-----------------------------------------------------------------------------
(* The inputs of the model: the arguments ProfileGenerator is built from. *)

Developers ==
    [Ann |-> [name |-> "Ann", jira |-> "ann", git |-> "ann@example.org"],
     Bob |-> [name |-> "Bob", jira |-> "bob", git |-> "bob@example.org"],
     Cy  |-> [name |-> "Cy",  jira |-> "cy",  git |-> "cy@example.org"]]

\* <<type, resolution, status>>: an in-scope issue, an issue of a category
\* that is not asked for, an issue the artifact filter drops
IssueKinds ==
    {<<"Bug", "Fixed", "Closed">>, <<"Task", "Fixed", "Resolved">>,
     <<"Bug", "Won't Fix", "Closed">>}

\* <<created_date, resolved_date>>
OpenLifeTime == <<<<0, 0>>, NoDate>>
ShortLifeTime == <<<<0, 0>>, <<0, 0>>>>
LateLifeTime == <<<<0, 1800>>, <<0, 43200>>>>
ResolvedBeforeCreated == <<<<0, 43200>>, <<0, 0>>>>
\* the resolve event, half an hour late, has the time stamp of the create event
ResolveEventAtCreation == <<<<0, 1800>>, <<0, 0>>>>

IssueLifeTimes ==
    [I1 |-> {OpenLifeTime, ShortLifeTime, LateLifeTime, ResolvedBeforeCreated,
             ResolveEventAtCreation},
     I2 |-> {OpenLifeTime, ShortLifeTime}]

Assignee == [I1 |-> Developers.Ann, I2 |-> Developers.Bob]

Issue(id, kind, life_time) ==
    [id |-> id, created_date |-> life_time[1], resolved_date |-> life_time[2],
     type |-> kind[1], resolution |-> kind[2], status |-> kind[3],
     assignee |-> Assignee[id].name, assignee_username |-> Assignee[id].jira]

IssuesOf(id) ==
    {Issue(id, kind, life_time) :
        kind \in IssueKinds, life_time \in IssueLifeTimes[id]}

CommitDates == (0..MaxDay) \X {0, 1800, 43200}

Commit(commit_hash, developer, committed_date, file_path) ==
    [commit_hash |-> commit_hash, author |-> developer.name,
     author_email |-> developer.git, committed_date |-> committed_date,
     file_path |-> file_path, to_predict |-> FALSE]

SourceFiles == << <<"src/Main", ".java">>, <<"README", ".md">> >>
OtherFiles == << <<"README", ".md">> >>

\* the links of the issue tracker: issue id -> commit hashes
LinkTables ==
    {SelectSeq(<<[key |-> "I1", val |-> l1], [key |-> "I2", val |-> l2]>>,
               LAMBDA e : e.val # <<>>) :
        l1 \in {<<>>, <<"c1">>, <<"c2">>, <<"c1", "c2">>},
        l2 \in {<<>>, <<"c1">>}}

\* the commit c1 is passed in the history, in the list of commits to predict,
\* or in both
Arguments ==
    {[data_source |->
          DataSource(<<i1, i2>>, links,
                     IF c1_in = "to predict" THEN <<c2>> ELSE <<c1, c2>>),
      change_sets_to_predict |-> IF c1_in = "history" THEN <<>> ELSE <<c1>>,
      issue_types |-> <<"bug">>] :
        i1 \in IssuesOf("I1"), i2 \in IssuesOf("I2"), links \in LinkTables,
        c1_in \in {"history", "to predict", "both"},
        c1 \in {Commit("c1", Developers.Ann, d, SourceFiles) : d \in CommitDates},
        c2 \in {Commit("c2", Developers.Cy, <<0, 1800>>, f) :
                   f \in {SourceFiles, OtherFiles}}}

\* A second family of arguments, for the history of an issue: three commits
\* that the tracker links to the issue I1 in any combination, two of them at
\* any of three instants, an issue without assignee and a commit without
\* author.
Anonymous == [name |-> "", jira |-> "", git |-> ""]

HistoryIssue(id, kind, life_time, developer) ==
    [id |-> id, created_date |-> life_time[1], resolved_date |-> life_time[2],
     type |-> kind[1], resolution |-> kind[2], status |-> kind[3],
     assignee |-> developer.name, assignee_username |-> developer.jira]

HistoryDates == {<<0, 0>>, <<0, 1800>>, <<1, 0>>}

HistoryFiles == << <<"src/Main", ".java">>, <<"src/Util", ".java">> >>

HistoryLinkTables ==
    {SelectSeq(<<[key |-> "I1", val |-> l1], [key |-> "I2", val |-> l2]>>,
               LAMBDA e : e.val # <<>>) :
        l1 \in {<<>>, <<"c1">>, <<"c2">>, <<"c3">>, <<"c1", "c2">>,
                <<"c1", "c3">>, <<"c2", "c3">>, <<"c1", "c2", "c3">>},
        l2 \in {<<>>, <<"c3">>}}

HistoryArguments ==
    {[data_source |->
          DataSource(<<i1, i2>>, links,
                     IF c1_in = "to predict" THEN <<c2, c3>> ELSE <<c1, c2, c3>>),
      change_sets_to_predict |-> IF c1_in = "history" THEN <<>> ELSE <<c1>>,
      issue_types |-> <<"bug">>] :
        i1 \in {HistoryIssue("I1", <<"Bug", "Fixed", "Closed">>, life_time, d) :
                   life_time \in {OpenLifeTime, LateLifeTime},
                   d \in {Developers.Ann, Anonymous}},
        i2 \in {HistoryIssue("I2", kind, OpenLifeTime, Developers.Bob) :
                   kind \in {<<"Bug", "Fixed", "Closed">>,
                             <<"Task", "Fixed", "Resolved">>}},
        links \in HistoryLinkTables,
        c1_in \in {"history", "to predict"},
        c1 \in {Commit("c1", Developers.Ann, d, HistoryFiles) :
                   d \in HistoryDates},
        c2 \in {Commit("c2", Developers.Bob, d, SourceFiles) :
                   d \in HistoryDates},
        c3 \in {Commit("c3", d, <<0, 1800>>, SourceFiles) :
                   d \in {Developers.Cy, Anonymous}}}

-----------------------------------------------------------------------------
(* The state machine: ProfileGenerator(...) followed by run(). *)

EmptyDict == [key \in {} |-> key]

\* the objects used on their own, which the engine does not hold
\* ProjectUsers.run, the earlier engines and util.resource_similarity
other_objects == <<users_args, earlier_runs, resource_call>>

standalone == <<calls, team_raw, team_users, team_members, other_objects>>

NoStandalone ==
    /\ calls = <<>>
    /\ team_raw = EmptyDict /\ team_users = <<>> /\ team_members = <<>>
    /\ users_args = [jira_users |-> <<>>, git_users |-> <<>>, linked |-> TRUE]
    /\ earlier_runs = <<>>
    /\ resource_call = [first |-> <<>>, second |-> <<>>, result |-> None]

\* the state after ProfileGenerator.__init__; when _prepare_data_source
\* raises ValueError there is no engine, and nothing is run
Constructed(a) ==
        /\ args = a
        /\ IF commit_hashes_overlap(a.data_source, a.change_sets_to_predict)
           THEN /\ pc = "ValueError"
                /\ data_source = DataSource(<<>>, <<>>, <<>>)
                /\ allowed_issue_types = <<>>
                /\ project_users = ProjectUsers_run(<<>>, <<>>)
                /\ linked_change_sets_unconstrained = {}
           ELSE /\ pc = "constructed"
                /\ data_source \in
                       prepare_data_source(a.data_source,
                                           a.change_sets_to_predict)
                /\ allowed_issue_types = a.issue_types
                /\ project_users \in build_project_users(data_source)
                /\ linked_change_sets_unconstrained =
                       all_linked_changed_sets(a.data_source)
        /\ issue_manager = IssueLifeTimeManager
        /\ issue_id_to_issue = EmptyDict
        /\ commit_hash_to_change_set = EmptyDict
        /\ commit_hash_to_issue_ids = EmptyDict
        /\ NoStandalone
        /\ event_stream = <<>>
        /\ event_nr = 0
        /\ last_commit = "None"
        /\ samples = <<>>
        /\ data_source_collector = <<>>
        /\ to_predict_collector = <<>>

Init == \E a \in Arguments : Constructed(a)

HistoryInit == \E a \in HistoryArguments : Constructed(a)

\* run(): the event stream and the lookups, before the loop
Generate ==
    /\ pc = "constructed"
    /\ event_stream' = generate(data_source)
    /\ issue_id_to_issue' = build_issue_lookup
    /\ commit_hash_to_change_set' = build_change_set_lookup
    /\ commit_hash_to_issue_ids' = build_change_set_issue_inverse_lookup
    /\ event_nr' = 0
    /\ pc' = "running"
    /\ UNCHANGED <<args, data_source, allowed_issue_types, project_users,
                   linked_change_sets_unconstrained, issue_manager, last_commit,
                   samples, data_source_collector, to_predict_collector,
                   standalone>>

\* the event the loop of run() handles next
HasEvent == pc = "running" /\ event_nr < Len(event_stream)

\* the events taken from the end of the stream
event_from_the_end == event_stream[Len(event_stream) - event_nr]

event == event_stream[event_nr + 1]

engine == <<args, data_source, allowed_issue_types, project_users,
            linked_change_sets_unconstrained, issue_id_to_issue,
            commit_hash_to_change_set, commit_hash_to_issue_ids, event_stream,
            standalone>>

\* "if not self.is_relevant_event(event): continue"
SkipEvent ==
    /\ HasEvent
    /\ ~is_relevant_event(event)
    /\ event_nr' = event_nr + 1
    /\ UNCHANGED <<engine, pc, issue_manager, last_commit, samples,
                   data_source_collector, to_predict_collector>>

JiraCreate ==
    /\ HasEvent
    /\ is_relevant_event(event)
    /\ event.type = "JiraEvent" /\ event.action = "create"
    /\ issue_manager' = create_issue(issue_manager, event.issue_id)
    /\ event_nr' = event_nr + 1
    /\ UNCHANGED <<engine, pc, last_commit, samples, data_source_collector,
                   to_predict_collector>>

JiraResolve ==
    /\ HasEvent
    /\ is_relevant_event(event)
    /\ event.type = "JiraEvent" /\ event.action = "resolve"
    /\ issue_manager' = resolve_issue(issue_manager, event.issue_id)
    /\ event_nr' = event_nr + 1
    /\ UNCHANGED <<engine, pc, last_commit, samples, data_source_collector,
                   to_predict_collector>>

\* the collector run() adds the samples of a commit to
routed_to_predict(commit_hash) ==
    is_marked_as_to_predict(commit_hash_to_change_set[commit_hash])

GitCommit ==
    /\ HasEvent
    /\ is_relevant_event(event)
    /\ event.type = "GitEvent"
    /\ LET result == create_samples_for_change_set(event.commit_hash)
       IN  IF result.raised # "None"
           THEN /\ pc' = result.raised
                /\ UNCHANGED <<event_nr, last_commit, samples, data_source_collector,
                               to_predict_collector>>
           ELSE /\ last_commit' = event.commit_hash
                /\ samples' = result.samples
                /\ IF routed_to_predict(event.commit_hash)
                   THEN /\ to_predict_collector' =
                               to_predict_collector \o result.samples
                        /\ UNCHANGED data_source_collector
                   ELSE /\ data_source_collector' =
                               data_source_collector \o result.samples
                        /\ UNCHANGED to_predict_collector
                /\ event_nr' = event_nr + 1
                /\ UNCHANGED pc
    /\ UNCHANGED <<engine, issue_manager>>

\* the loop of run() is over
Return ==
    /\ pc = "running"
    /\ event_nr = Len(event_stream)
    /\ pc' = "done"
    /\ UNCHANGED <<engine, event_nr, issue_manager, last_commit, samples,
                   data_source_collector, to_predict_collector>>

Next == Generate \/ SkipEvent \/ JiraCreate \/ JiraResolve \/ GitCommit \/ Return

Spec == Init /\ [][Next]_vars

\* the same engine, built from the second family of arguments
HistorySpec == HistoryInit /\ [][Next]_vars

\* A second engine, constructed from the arguments of the first one once
\* the first has run, with collectors of its own; the collectors of the
\* first engine are kept
Restart ==
    /\ pc = "done"
    /\ earlier_runs = <<>>
    /\ earlier_runs' =
           <<[data_source_collector |-> data_source_collector,
              to_predict_collector |-> to_predict_collector]>>
    /\ pc' = "constructed"
    /\ data_source' \in prepare_data_source(args.data_source,
                                            args.change_sets_to_predict)
    /\ allowed_issue_types' = args.issue_types
    /\ project_users' \in build_project_users(data_source')
    /\ linked_change_sets_unconstrained' =
           all_linked_changed_sets(args.data_source)
    /\ issue_manager' = IssueLifeTimeManager
    /\ issue_id_to_issue' = EmptyDict
    /\ commit_hash_to_change_set' = EmptyDict
    /\ commit_hash_to_issue_ids' = EmptyDict
    /\ event_stream' = <<>>
    /\ event_nr' = 0
    /\ last_commit' = "None"
    /\ samples' = <<>>
    /\ data_source_collector' = <<>>
    /\ to_predict_collector' = <<>>
    /\ UNCHANGED <<args, calls, team_raw, team_users, team_members,
                   users_args, resource_call>>

TwoRunsNext == Next \/ Restart

TwoRunsSpec == HistoryInit /\ [][TwoRunsNext]_vars

\* run() called again on the engine that has run, with two new collectors;
\* the collectors of the first call are kept.  The engine keeps its
\* issue_manager: only __init__ sets it.
Rerun ==
    /\ pc = "done"
    /\ earlier_runs = <<>>
    /\ earlier_runs' =
           <<[data_source_collector |-> data_source_collector,
              to_predict_collector |-> to_predict_collector]>>
    /\ pc' = "constructed"
    /\ event_nr' = 0
    /\ last_commit' = "None"
    /\ samples' = <<>>
    /\ data_source_collector' = <<>>
    /\ to_predict_collector' = <<>>
    /\ UNCHANGED <<args, data_source, allowed_issue_types, project_users,
                   linked_change_sets_unconstrained, issue_manager,
                   issue_id_to_issue, commit_hash_to_change_set,
                   commit_hash_to_issue_ids, event_stream, calls, team_raw,
                   team_users, team_members, users_args, resource_call>>

SameEngineNext == Next \/ Rerun

SameEngineSpec == HistoryInit /\ [][SameEngineNext]_vars

-----------------------------------------------------------------------------
(* The engine with an event stream creator of its own (engine.esc is a     *)
(* public attribute): its stream holds, next to the events of              *)
(* EventStreamCreator, one tracker event of another action.                *)

ForeignArguments ==
    {[data_source |-> DataSource(<<i1, i2>>, <<>>, <<c1, c2>>),
      change_sets_to_predict |-> <<>>,
      issue_types |-> <<"bug">>] :
        i1 \in {Issue("I1", kind, life_time) :
                   kind \in IssueKinds,
                   life_time \in {OpenLifeTime, LateLifeTime}},
        i2 \in {Issue("I2", <<"Bug", "Fixed", "Closed">>, OpenLifeTime)},
        c1 \in {Commit("c1", Developers.Ann, d, SourceFiles) :
                   d \in {<<0, 0>>, <<0, 43200>>}},
        c2 \in {Commit("c2", Developers.Cy, <<0, 1800>>, SourceFiles)}}

ForeignInit == \E a \in ForeignArguments : Constructed(a)

\* the tracker events of another action the creator may add
ForeignEvents ==
    {JiraEvent(date_time,
               date_time_to_timestamp(date_time) + TIME_STAMP_OFFSET,
               issue_id, "reopen") :
        date_time \in {<<0, 0>>, <<0, 1800>>, <<1, 0>>},
        issue_id \in {"I1", "I2", "I9"}}

\* run() up to its loop, the stream being the one of the other creator
GenerateForeign ==
    /\ pc = "constructed"
    /\ \E foreign \in ForeignEvents :
           event_stream' =
               sort_by_time_stamp(generate_jira_events(data_source.issues)
                                  \o <<foreign>>
                                  \o generate_git_events(data_source.change_sets))
    /\ issue_id_to_issue' = build_issue_lookup
    /\ commit_hash_to_change_set' = build_change_set_lookup
    /\ commit_hash_to_issue_ids' = build_change_set_issue_inverse_lookup
    /\ event_nr' = 0
    /\ pc' = "running"
    /\ UNCHANGED <<args, data_source, allowed_issue_types, project_users,
                   linked_change_sets_unconstrained, issue_manager, last_commit,
                   samples, data_source_collector, to_predict_collector,
                   standalone>>

\* raise RuntimeError("Unknown event action %s" % event.action)
JiraUnknownAction ==
    /\ HasEvent
    /\ is_relevant_event(event)
    /\ event.type = "JiraEvent"
    /\ event.action \notin {"create", "resolve"}
    /\ pc' = "RuntimeError"
    /\ UNCHANGED <<engine, event_nr, issue_manager, last_commit, samples,
                   data_source_collector, to_predict_collector>>

ForeignNext ==
    \/ GenerateForeign \/ SkipEvent \/ JiraCreate \/ JiraResolve
    \/ JiraUnknownAction \/ GitCommit \/ Return

ForeignSpec == ForeignInit /\ [][ForeignNext]_vars

-----------------------------------------------------------------------------
(* The engine on a history that reaches beyond the date the event stream   *)
(* gives to the resolve event of an unresolved issue; run() is not         *)
(* interrupted: a call that has begun goes on.                             *)

\* noon of the day after _DATE_TIME_FAR_IN_FUTURE
DayAfterFarFuture == <<DATE_TIME_FAR_IN_FUTURE[1] + 1, 43200>>

LateArguments ==
    {[data_source |-> DataSource(<<i1, i2>>, links, <<c1, c2>>),
      change_sets_to_predict |-> <<>>,
      issue_types |-> <<"bug">>] :
        i1 \in {Issue("I1", kind, life_time) :
                   kind \in IssueKinds,
                   life_time \in {OpenLifeTime, LateLifeTime}},
        i2 \in {Issue("I2", <<"Bug", "Fixed", "Closed">>, life_time) :
                   life_time \in {OpenLifeTime, ShortLifeTime}},
        links \in {<<>>, <<[key |-> "I1", val |-> <<"c1">>]>>},
        c1 \in {Commit("c1", Developers.Ann, d, SourceFiles) :
                   d \in {<<0, 0>>, <<0, 43200>>, DayAfterFarFuture}},
        c2 \in {Commit("c2", Developers.Cy, <<0, 1800>>, SourceFiles)}}

LateInit == \E a \in LateArguments : Constructed(a)

LateSpec == LateInit /\ [][Next]_vars /\ WF_vars(Next)

-----------------------------------------------------------------------------
(* An IssueLifeTimeManager used on its own: any sequence of calls.         *)

IssueIds == {"I1", "I2"}

Call(op, issue_id) == [op |-> op, issue_id |-> issue_id]

\* the variables of the engine
engine_vars == <<args, pc, data_source, allowed_issue_types, project_users,
                 linked_change_sets_unconstrained, issue_id_to_issue,
                 commit_hash_to_change_set, commit_hash_to_issue_ids,
                 event_stream, event_nr, last_commit, samples,
                 data_source_collector, to_predict_collector>>

\* no engine is built
NoEngine ==
    /\ args = [data_source |-> DataSource(<<>>, <<>>, <<>>),
               change_sets_to_predict |-> <<>>, issue_types |-> <<>>]
    /\ pc = "None"
    /\ data_source = DataSource(<<>>, <<>>, <<>>)
    /\ allowed_issue_types = <<>>
    /\ project_users = ProjectUsers_run(<<>>, <<>>)
    /\ linked_change_sets_unconstrained = {}
    /\ issue_id_to_issue = EmptyDict
    /\ commit_hash_to_change_set = EmptyDict
    /\ commit_hash_to_issue_ids = EmptyDict
    /\ event_stream = <<>>
    /\ event_nr = 0
    /\ last_commit = "None"
    /\ samples = <<>>
    /\ data_source_collector = <<>>
    /\ to_predict_collector = <<>>

\* IssueLifeTimeManager()
LifeTimeInit ==
    /\ NoEngine
    /\ issue_manager = IssueLifeTimeManager
    /\ NoStandalone

CallCreateIssue ==
    \E issue_id \in IssueIds :
        /\ Len(calls) < MaxCalls
        /\ issue_manager' = create_issue(issue_manager, issue_id)
        /\ calls' = Append(calls, Call("create_issue", issue_id))
        /\ UNCHANGED <<engine_vars, team_raw, team_users, team_members,
                       other_objects>>

CallResolveIssue ==
    \E issue_id \in IssueIds :
        /\ Len(calls) < MaxCalls
        /\ issue_manager' = resolve_issue(issue_manager, issue_id)
        /\ calls' = Append(calls, Call("resolve_issue", issue_id))
        /\ UNCHANGED <<engine_vars, team_raw, team_users, team_members,
                       other_objects>>

LifeTimeNext == CallCreateIssue \/ CallResolveIssue

LifeTimeSpec == LifeTimeInit /\ [][LifeTimeNext]_vars

-----------------------------------------------------------------------------
(* A DeveloperTeam built on its own, from the sorted list of pairs that    *)
(* build_project_users makes of a dict of names and user names.            *)

TeamNames == {"Ann", "Bob"}
UserNames == {"u1", "u2", "u3", "u4"}

NumberOfPairs(raw) ==
    IF DOMAIN raw = {} THEN 0
    ELSE IF DOMAIN raw = TeamNames
    THEN Cardinality(raw["Ann"]) + Cardinality(raw["Bob"])
    ELSE Cardinality(raw[CHOOSE name \in DOMAIN raw : TRUE])

\* the dicts of sets that the loops of build_project_users can collect
TeamRaws ==
    {raw \in UNION {[names -> SUBSET UserNames \ {{}}] :
                       names \in SUBSET TeamNames} :
        NumberOfPairs(raw) <= MaxPairs}

\* DeveloperTeam(...), and the list of pairs to add
TeamInit ==
    /\ NoEngine
    /\ issue_manager = IssueLifeTimeManager
    /\ calls = <<>>
    /\ users_args = [jira_users |-> <<>>, git_users |-> <<>>, linked |-> TRUE]
    /\ earlier_runs = <<>>
    /\ resource_call = [first |-> <<>>, second |-> <<>>, result |-> None]
    /\ team_raw \in TeamRaws
    /\ team_users \in sorted_flatten(team_raw, 1)
    /\ team_members = <<>>

\* one round of the loop of ProjectUsers.run
AddOrUpdateDeveloper ==
    /\ team_users # <<>>
    /\ team_members' = add_or_update_developer(
                           team_members, Head(team_users)[1], Head(team_users)[2])
    /\ team_users' = Tail(team_users)
    /\ UNCHANGED <<engine_vars, issue_manager, calls, team_raw, other_objects>>

TeamNext == AddOrUpdateDeveloper

TeamSpec == TeamInit /\ [][TeamNext]_vars

-----------------------------------------------------------------------------
(* A DeveloperTeam on its own, the pairs added in any order: names and     *)
(* user names may be empty strings.                                        *)

AnyPairs == {"Ann", "Bob", ""} \X {"u1", "u2", ""}

AnyPairLists == UNION {[1..n -> AnyPairs] : n \in 0..MaxPairs}

AnyOrderInit ==
    /\ NoEngine
    /\ issue_manager = IssueLifeTimeManager
    /\ calls = <<>>
    /\ users_args = [jira_users |-> <<>>, git_users |-> <<>>, linked |-> TRUE]
    /\ earlier_runs = <<>>
    /\ resource_call = [first |-> <<>>, second |-> <<>>, result |-> None]
    /\ team_raw = EmptyDict
    /\ team_users \in AnyPairLists
    /\ team_members = <<>>

AnyOrderSpec == AnyOrderInit /\ [][TeamNext]_vars

-----------------------------------------------------------------------------
(* ProjectUsers.run on a fresh object, on its own.                         *)

\* the sorted lists of pairs of at most two names and two user names
UsersLists ==
    UNION {sorted_flatten(raw, 1) :
              raw \in {r \in TeamRaws :
                          \A name \in DOMAIN r : r[name] \subseteq {"u1", "u2"}}}

\* ProjectUsers(), and the arguments of run
UsersInit ==
    /\ NoEngine
    /\ issue_manager = IssueLifeTimeManager
    /\ calls = <<>>
    /\ team_raw = EmptyDict /\ team_users = <<>> /\ team_members = <<>>
    /\ earlier_runs = <<>>
    /\ resource_call = [first |-> <<>>, second |-> <<>>, result |-> None]
    /\ users_args \in [jira_users : UsersLists, git_users : UsersLists,
                        linked : {FALSE}]

users_idle == <<args, pc, data_source, allowed_issue_types,
                linked_change_sets_unconstrained, issue_id_to_issue,
                commit_hash_to_change_set, commit_hash_to_issue_ids,
                event_stream, event_nr, last_commit, samples,
                data_source_collector, to_predict_collector, issue_manager,
                calls, team_raw, team_users, team_members, earlier_runs,
                resource_call>>

\* one round of the first loop of ProjectUsers.run
AddJiraDeveloper ==
    /\ users_args.jira_users # <<>>
    /\ project_users' =
           [project_users EXCEPT
               !.jira_team = add_or_update_developer(
                                 @, Head(users_args.jira_users)[1],
                                 Head(users_args.jira_users)[2])]
    /\ users_args' = [users_args EXCEPT !.jira_users = Tail(@)]
    /\ UNCHANGED users_idle

\* one round of the second loop of ProjectUsers.run
AddGitDeveloper ==
    /\ users_args.jira_users = <<>>
    /\ users_args.git_users # <<>>
    /\ project_users' =
           [project_users EXCEPT
               !.git_team = add_or_update_developer(
                                @, Head(users_args.git_users)[1],
                                Head(users_args.git_users)[2])]
    /\ users_args' = [users_args EXCEPT !.git_users = Tail(@)]
    /\ UNCHANGED users_idle

\* self.link_teams(), the last statement of ProjectUsers.run
LinkTeams ==
    /\ users_args.jira_users = <<>>
    /\ users_args.git_users = <<>>
    /\ ~users_args.linked
    /\ project_users' =
           [project_users EXCEPT
               !.team_links = @ \o link_teams(project_users.jira_team,
                                              project_users.git_team)]
    /\ users_args' = [users_args EXCEPT !.linked = TRUE]
    /\ UNCHANGED users_idle

UsersNext == AddJiraDeveloper \/ AddGitDeveloper \/ LinkTeams

UsersSpec == UsersInit /\ [][UsersNext]_vars

\* ---- ProjectUsers.get_link_id called by a client of the roster --------

\* the team names and user names a client passes
RosterTags == {"jira", "git", "svn", ""}
LookedUpUserNames == {"u1", "u3"}

link_id_idle == <<args, pc, data_source, allowed_issue_types, project_users,
                  linked_change_sets_unconstrained, issue_id_to_issue,
                  commit_hash_to_change_set, commit_hash_to_issue_ids,
                  event_stream, event_nr, last_commit, samples,
                  data_source_collector, to_predict_collector, issue_manager,
                  team_raw, team_users, team_members, users_args,
                  earlier_runs, resource_call>>

\* project_users.get_link_id(user_name, team_name), before run is called
\* (no link yet) or after it has returned; calls holds the last call
GetLinkId ==
    /\ \/ users_args.linked
       \/ project_users = [jira_team |-> <<>>, git_team |-> <<>>,
                           team_links |-> <<>>]
    /\ \E user_name \in LookedUpUserNames, team_name \in RosterTags :
          calls' = <<[op |-> "get_link_id", user_name |-> user_name,
                      team_name |-> team_name,
                      outcome |-> get_link_id(project_users, user_name,
                                              team_name)]>>
    /\ UNCHANGED link_id_idle

LinkIdNext == UsersNext \/ GetLinkId

LinkIdSpec == UsersInit /\ [][LinkIdNext]_vars

-----------------------------------------------------------------------------
(* util.resource_similarity called on its own.                             *)

\* the lists of at most MaxLen elements, and the lists of the doctest
ResourceLists ==
    UNION {[1..n -> {"a", "b", "c"}] : n \in 0..MaxLen}
        \cup {<<"a", "b", "c", "d">>, <<"a", "c", "e">>}

ResourceInit ==
    /\ NoEngine
    /\ issue_manager = IssueLifeTimeManager
    /\ calls = <<>>
    /\ team_raw = EmptyDict /\ team_users = <<>> /\ team_members = <<>>
    /\ users_args = [jira_users |-> <<>>, git_users |-> <<>>, linked |-> TRUE]
    /\ earlier_runs = <<>>
    /\ resource_call \in [first : ResourceLists, second : ResourceLists,
                           result : {None}]

CallResourceSimilarity ==
    /\ resource_call.result = None
    /\ resource_call' =
           [resource_call EXCEPT
               !.result = Some(resource_similarity(resource_call.first,
                                                   resource_call.second))]
    /\ UNCHANGED <<engine_vars, issue_manager, calls, team_raw, team_users,
                   team_members, users_args, earlier_runs>>

ResourceNext == CallResourceSimilarity

ResourceSpec == ResourceInit /\ [][ResourceNext]_vars

-----------------------------------------------------------------------------
(* Vocabulary of the properties, read off the arguments and the filtered   *)
(* data source rather than off the lookups of the engine.                  *)

Collected == data_source_collector \o to_predict_collector

\* the filtered link table holds the pair (issue_id, commit_hash)
KnownLink(issue_id, commit_hash) ==
    \E e \in Range(data_source.issue_to_change_set) :
        e.key = issue_id /\ commit_hash \in Range(e.val)

KnownLinks(commit_hash) ==
    {e.key : e \in {x \in Range(data_source.issue_to_change_set) :
                       commit_hash \in Range(x.val)}}

\* the issue passed the artifact filter and its category is asked for
InScope(issue_id) ==
    \E i \in Range(data_source.issues) :
        i.id = issue_id /\ i.mapped_type \in Range(args.issue_types)

InScopeLinks(commit_hash) == {id \in KnownLinks(commit_hash) : InScope(id)}

HeldOut(commit_hash) ==
    commit_hash \in {c.commit_hash : c \in Range(args.change_sets_to_predict)}

InHistory(commit_hash) ==
    commit_hash \in {c.commit_hash : c \in Range(args.data_source.change_sets)}

OpenSet == Range(issue_manager.current_open_issues)
ResolvedSet == Range(issue_manager.resolved_issues)

\* the event replayed last was the commit event of last_commit, so that
\* samples are its records and the life-time state is the one it saw
CommitReplayed ==
    /\ event_nr > 0
    /\ event_stream[event_nr].type = "GitEvent"
    /\ event_stream[event_nr].commit_hash = last_commit

CommittedDate(commit_hash) ==
    (CHOOSE c \in Range(data_source.change_sets) :
        c.commit_hash = commit_hash).committed_date

ResolvedDate(issue_id) ==
    (CHOOSE i \in Range(data_source.issues) : i.id = issue_id).resolved_date

\* the issue has a resolution time less than 1.5 days from the commit time
InWindow(issue_id, commit_hash) ==
    /\ ResolvedDate(issue_id) # NoDate
    /\ LET c == CommittedDate(commit_hash)
           r == ResolvedDate(issue_id)
           diff == (c[1] - r[1]) * 86400 + c[2] - r[2]
       IN  -129600 < diff /\ diff < 129600

SamplesOf(issue_id) ==
    {k \in DOMAIN samples : samples[k].f01_issue_id = issue_id}

-----------------------------------------------------------------------------
(* Properties. *)

\* C1 as stated: the commit event of every commit, held-out or not, with a
\* known link to an in-scope issue yields exactly one record for each in-scope
\* linked issue and no record for another issue.
C1_LinkedCommitAnyMarker ==
    (CommitReplayed /\ InScopeLinks(last_commit) # {}) =>
        /\ \A id \in InScopeLinks(last_commit) : Cardinality(SamplesOf(id)) = 1
        /\ \A k \in DOMAIN samples :
               samples[k].f01_issue_id \in InScopeLinks(last_commit)

\* C1 amended: the commit event of every commit that is not held-out and has
\* a known link to an in-scope issue yields exactly one record for each
\* in-scope linked issue and no record for another issue.
C1_LinkedTrainingCommit ==
    (CommitReplayed /\ ~HeldOut(last_commit) /\ InScopeLinks(last_commit) # {}) =>
        /\ \A id \in InScopeLinks(last_commit) : Cardinality(SamplesOf(id)) = 1
        /\ \A k \in DOMAIN samples :
               samples[k].f01_issue_id \in InScopeLinks(last_commit)

\* a training commit linked to I1 alone is replayed while the in-scope issue
\* I2 is open, and yields the record of I1 only
C1_Witness ==
    /\ CommitReplayed /\ ~HeldOut(last_commit)
    /\ InScopeLinks(last_commit) = {"I1"}
    /\ InScope("I2") /\ "I2" \in OpenSet
    /\ Len(samples) = 1 /\ samples[1].f01_issue_id = "I1"

RECURSIVE ExpectedOpen(_)
ExpectedOpen(open_issues) ==
    IF open_issues = <<>> THEN <<>>
    ELSE << <<Head(open_issues), TRUE>> >> \o ExpectedOpen(Tail(open_issues))

RECURSIVE ExpectedResolved(_, _)
ExpectedResolved(resolved_issues, commit_hash) ==
    IF resolved_issues = <<>> THEN <<>>
    ELSE (IF InWindow(Head(resolved_issues), commit_hash)
          THEN << <<Head(resolved_issues), FALSE>> >> ELSE <<>>)
         \o ExpectedResolved(Tail(resolved_issues), commit_hash)

\* C3: the records of a relevant commit without known link are one record
\* marked within-lifetime for every open issue, and one record marked
\* not-within-lifetime for every resolved issue whose resolution time is
\* less than 1.5 days from the commit time, and no other record.
C3_UnlinkedCommitRecords ==
    (CommitReplayed /\ KnownLinks(last_commit) = {}) =>
        [k \in DOMAIN samples |->
            <<samples[k].f01_issue_id,
              samples[k].f06_is_commit_within_issue_life_time>>]
            = ExpectedOpen(issue_manager.current_open_issues)
              \o ExpectedResolved(issue_manager.resolved_issues, last_commit)

\* a commit without known link gets a record of the open issue I2 and one
\* of the issue I1 resolved shortly before
C3_Witness ==
    /\ CommitReplayed /\ KnownLinks(last_commit) = {}
    /\ Len(samples) = 2
    /\ samples[1].f01_issue_id = "I2"
    /\ samples[1].f06_is_commit_within_issue_life_time
    /\ samples[2].f01_issue_id = "I1"
    /\ ~samples[2].f06_is_commit_within_issue_life_time

\* C4: the within-lifetime flag of every record is true exactly when the
\* issue of the record is open at the moment its commit event is replayed.
C4_LifeTimeFlagIffOpen ==
    CommitReplayed =>
        \A k \in DOMAIN samples :
            samples[k].f06_is_commit_within_issue_life_time
                <=> samples[k].f01_issue_id \in OpenSet

\* C5: no issue id is in the open set and in the resolved set at once.
C5_OpenResolvedDisjoint == OpenSet \cap ResolvedSet = {}

\* C6: an issue id that is resolved and not open never enters the open set
\* in a later step.
C6_ResolvedNeverReopens ==
    [][\A id \in ResolvedSet \ OpenSet :
          id \notin Range(issue_manager'.current_open_issues)]_vars

\* C7: every record in the to-predict collector is of a commit passed in the
\* commits-to-predict list, every record in the training collector is of a
\* history commit, and the records of a commit are added to one collector.
C7_RoutedByMarker ==
    /\ \A k \in DOMAIN to_predict_collector :
           HeldOut(to_predict_collector[k].f00_commit_hash)
    /\ \A k \in DOMAIN data_source_collector :
           InHistory(data_source_collector[k].f00_commit_hash)
    /\ CommitReplayed =>
           LET collector == IF HeldOut(last_commit) THEN to_predict_collector
                            ELSE data_source_collector
           IN  /\ Len(collector) >= Len(samples)
               /\ SubSeq(collector, Len(collector) - Len(samples) + 1,
                         Len(collector)) = samples

\* both collectors hold records, after the held-out commit was replayed
C7_Witness ==
    /\ CommitReplayed /\ HeldOut(last_commit) /\ samples # <<>>
    /\ data_source_collector # <<>>
    /\ to_predict_collector # <<>>

\* C8: the label of every record is true exactly when the filtered link
\* table holds the pair of its issue and its commit.
C8_LabelIffKnownLink ==
    \A k \in DOMAIN Collected :
        Collected[k].f99_is_linked
            <=> KnownLink(Collected[k].f01_issue_id, Collected[k].f00_commit_hash)

\* the held-out commit has a record labelled true and one labelled false
C8_Witness ==
    /\ \E k \in DOMAIN to_predict_collector :
           to_predict_collector[k].f99_is_linked
    /\ \E k \in DOMAIN to_predict_collector :
           ~to_predict_collector[k].f99_is_linked

\* C9: in every record the number of open issues of the author is at most
\* the number of open issues, and the sanity assertion never fails.
C9_AuthorCountAtMostOpenCount ==
    /\ pc # "AssertionError"
    /\ \A k \in DOMAIN Collected :
           Collected[k].f13_num_open_issues_from_committer_at_commit_time
               <= Collected[k].f12_num_open_issues_at_commit_time

\* a record of a commit whose author has one of two open issues
C9_Witness ==
    \E k \in DOMAIN Collected :
        /\ Collected[k].f13_num_open_issues_from_committer_at_commit_time = 1
        /\ Collected[k].f12_num_open_issues_at_commit_time = 2

EventsWith(type, id, action) ==
    {k \in DOMAIN event_stream :
        /\ event_stream[k].type = type
        /\ event_stream[k].action = action
        /\ (IF type = "JiraEvent" THEN event_stream[k].issue_id
            ELSE event_stream[k].commit_hash) = id}

\* seconds from 1970-01-01 to the date, moved to the epoch of the stream
StreamTime(date, offset) == date[1] * 86400 + date[2] + offset - 946684800

\* C10: the event stream is sorted by ascending time stamp and holds one
\* create event and one resolve event of every filtered issue (the resolve
\* event at the far-future time when the issue has no resolution date), one
\* commit event of every filtered commit, and nothing else.
C10_EventStream ==
    pc # "constructed" =>
        /\ \A j, k \in DOMAIN event_stream :
               j < k => event_stream[j].time_stamp <= event_stream[k].time_stamp
        /\ Len(event_stream) =
               2 * Len(data_source.issues) + Len(data_source.change_sets)
        /\ \A i \in Range(data_source.issues) :
               /\ Cardinality(EventsWith("JiraEvent", i.id, "create")) = 1
               /\ Cardinality(EventsWith("JiraEvent", i.id, "resolve")) = 1
               /\ \A k \in EventsWith("JiraEvent", i.id, "create") :
                      event_stream[k].time_stamp = StreamTime(i.created_date, 0)
               /\ \A k \in EventsWith("JiraEvent", i.id, "resolve") :
                      event_stream[k].time_stamp =
                          StreamTime(IF i.resolved_date = NoDate
                                     THEN <<22279, 86399>> ELSE i.resolved_date,
                                     1800)
        /\ \A c \in Range(data_source.change_sets) :
               /\ Cardinality(EventsWith("GitEvent", c.commit_hash, "None")) = 1
               /\ \A k \in EventsWith("GitEvent", c.commit_hash, "None") :
                      event_stream[k].time_stamp = StreamTime(c.committed_date, 0)

\* a stream of two issues and two commits in which a commit event follows
\* the resolve event of I1 and precedes the far-future resolve event of I2
C10_Witness ==
    /\ pc = "running"
    /\ Len(event_stream) = 6
    /\ event_stream[6].issue_id = "I2" /\ event_stream[6].action = "resolve"
    /\ event_stream[6].time_stamp = 978308999
    /\ event_stream[5].type = "GitEvent"
    /\ event_stream[4].issue_id = "I1" /\ event_stream[4].action = "resolve"

\* C11: of two events with the same time stamp an issue event is replayed
\* before a commit event, and the create event of an issue before the
\* resolve event of the same issue.
C11_TiesInInsertionOrder ==
    \A j, k \in DOMAIN event_stream :
        event_stream[j].time_stamp = event_stream[k].time_stamp =>
            /\ (/\ event_stream[j].type = "JiraEvent"
                /\ event_stream[k].type = "GitEvent") => j < k
            /\ (/\ event_stream[j].type = "JiraEvent"
                /\ event_stream[k].type = "JiraEvent"
                /\ event_stream[j].issue_id = event_stream[k].issue_id
                /\ event_stream[j].action = "create"
                /\ event_stream[k].action = "resolve") => j < k

\* the create event and the resolve event of I1 and the event of the commit
\* c2 have one time stamp, and are replayed in this order
C11_Witness ==
    /\ pc = "done"
    /\ \E j \in DOMAIN event_stream :
           /\ j + 2 <= Len(event_stream)
           /\ event_stream[j].issue_id = "I1"
           /\ event_stream[j].action = "create"
           /\ event_stream[j + 1].issue_id = "I1"
           /\ event_stream[j + 1].action = "resolve"
           /\ event_stream[j + 2].commit_hash = "c2"
           /\ event_stream[j].time_stamp = event_stream[j + 2].time_stamp

\* the in-scope issues resolved in the second of the commit and created no
\* later than the commit
ResolvedAtCommit(commit_hash) ==
    {i.id : i \in {x \in Range(data_source.issues) :
                      /\ InScope(x.id)
                      /\ x.resolved_date = CommittedDate(commit_hash)
                      /\ ~DateLess(CommittedDate(commit_hash), x.created_date)}}

\* C12: when a commit event is replayed, the resolve event of an in-scope
\* issue resolved in the second of the commit and created no later than the
\* commit is still to come: the issue is open, not resolved, and every
\* record of the pair is marked within-lifetime.
C12_SameSecondCommitWithinLifeTime ==
    CommitReplayed =>
        \A id \in ResolvedAtCommit(last_commit) :
            /\ \A k \in EventsWith("JiraEvent", id, "resolve") : k > event_nr
            /\ id \in OpenSet /\ id \notin ResolvedSet
            /\ \A k \in SamplesOf(id) :
                   samples[k].f06_is_commit_within_issue_life_time

\* the commit c1, made at noon of day 0 in the second I1 is resolved, has a
\* record of I1 that is marked within-lifetime
C12_Witness ==
    /\ CommitReplayed /\ last_commit = "c1"
    /\ CommittedDate("c1") = <<0, 43200>>
    /\ "I1" \in ResolvedAtCommit("c1")
    /\ \E k \in SamplesOf("I1") :
           samples[k].f06_is_commit_within_issue_life_time

\* the issue event at place k of the stream is of an in-scope issue
InScopeIssueEvent(k, action) ==
    /\ event_stream[k].type = "JiraEvent"
    /\ event_stream[k].action = action
    /\ InScope(event_stream[k].issue_id)

\* the life-time transitions of the first n events of the stream
OpenAfter(n) ==
    {event_stream[j].issue_id :
        j \in {c \in 1..n :
                  /\ InScopeIssueEvent(c, "create")
                  /\ \A r \in (c + 1)..n :
                         ~(/\ InScopeIssueEvent(r, "resolve")
                           /\ event_stream[r].issue_id =
                                  event_stream[c].issue_id)}}

ResolvedAfter(n) ==
    {event_stream[r].issue_id :
        r \in {x \in 1..n : InScopeIssueEvent(x, "resolve")}}

\* the place of the commit event of a commit in the stream
PlaceOf(commit_hash) ==
    CHOOSE k \in DOMAIN event_stream :
        event_stream[k].type = "GitEvent"
            /\ event_stream[k].commit_hash = commit_hash

NonDecreasingCommitTime(collector) ==
    \A j, k \in DOMAIN collector :
        j < k => event_stream[PlaceOf(collector[j].f00_commit_hash)].time_stamp
                     <= event_stream[PlaceOf(collector[k].f00_commit_hash)].time_stamp

\* C13: the life-time state is the one the events replayed so far lead to,
\* in the order of the stream; the records of either collector are of commit
\* events replayed so far, in the order of non-decreasing time stamp of their
\* commit events; and the number of open issues a record holds is the one
\* the events before its commit event lead to.
C13_SideEffectsInStreamOrder ==
    /\ OpenSet = OpenAfter(event_nr)
    /\ ResolvedSet = ResolvedAfter(event_nr)
    /\ NonDecreasingCommitTime(data_source_collector)
    /\ NonDecreasingCommitTime(to_predict_collector)
    /\ \A k \in DOMAIN Collected :
           LET place == PlaceOf(Collected[k].f00_commit_hash)
           IN  /\ place <= event_nr
               /\ Collected[k].f12_num_open_issues_at_commit_time =
                      Cardinality(OpenAfter(place - 1))

\* the training collector holds a record of c2, made while two issues are
\* open, before a record of c1, made after one of them is resolved, although
\* the history lists c1 first
C13_Witness ==
    /\ pc = "done"
    /\ \E j, k \in DOMAIN data_source_collector :
           /\ j < k
           /\ data_source_collector[j].f00_commit_hash = "c2"
           /\ data_source_collector[j].f12_num_open_issues_at_commit_time = 2
           /\ data_source_collector[k].f00_commit_hash = "c1"
           /\ data_source_collector[k].f12_num_open_issues_at_commit_time = 1

\* the issues the raw link table, as passed to the engine, links the commit to
RawLinks(commit_hash) ==
    {e.key : e \in {x \in Range(args.data_source.issue_to_change_set) :
                       commit_hash \in Range(x.val)}}

\* the event replayed last is the commit event of the commit
CommitEventReplayed(commit_hash) ==
    /\ event_nr > 0
    /\ event_stream[event_nr].type = "GitEvent"
    /\ event_stream[event_nr].commit_hash = commit_hash

RecordsOf(commit_hash) ==
    {k \in DOMAIN Collected : Collected[k].f00_commit_hash = commit_hash}

\* C14: the commit event of a commit without any link in the raw link table
\* is not skipped: the commit is sampled.  A commit without link to an
\* in-scope issue that the raw link table links to some (excluded) issue is
\* skipped: it is not sampled and has no record in either collector.
C14_RelevanceOfUnlinkedCommits ==
    \A h \in {c.commit_hash : c \in Range(data_source.change_sets)} :
        /\ (CommitEventReplayed(h) /\ RawLinks(h) = {}) => last_commit = h
        /\ (InScopeLinks(h) = {} /\ RawLinks(h) # {}) =>
               last_commit # h /\ RecordsOf(h) = {}

\* the commit c2, without any link, has been sampled and has a record; the
\* event of c1, linked to the excluded issue I1 alone, is replayed while I2
\* is open, and c1 has no record
C14_Witness ==
    /\ CommitEventReplayed("c1")
    /\ RawLinks("c1") = {"I1"} /\ ~InScope("I1")
    /\ InScope("I2") /\ "I2" \in OpenSet
    /\ RecordsOf("c1") = {}
    /\ RawLinks("c2") = {}
    /\ last_commit = "c2" /\ RecordsOf("c2") # {}

\* C15: the commit event of a commit that the link table links to at least
\* one in-scope issue is never skipped: once it is replayed the commit is
\* sampled, whatever other issues the commit is linked to.
C15_LinkedToInScopeIssueIsRelevant ==
    \A h \in {c.commit_hash : c \in Range(data_source.change_sets)} :
        (CommitEventReplayed(h) /\ InScopeLinks(h) # {}) =>
            last_commit = h /\ pc \in {"running", "done"}

\* the commit c1, linked to the in-scope issue I1 and to the excluded issue
\* I2, is sampled and has a record
C15_Witness ==
    /\ CommitEventReplayed("c1")
    /\ KnownLinks("c1") = {"I1", "I2"}
    /\ InScope("I1") /\ ~InScope("I2")
    /\ last_commit = "c1" /\ RecordsOf("c1") # {}

\* a commit hash of the commits-to-predict list is a hash of the history
HashesOverlap ==
    \E c \in Range(args.change_sets_to_predict) :
        \E d \in Range(args.data_source.change_sets) :
            c.commit_hash = d.commit_hash

\* C16: when a hash of the commits-to-predict list is a hash of the history,
\* the construction fails with ValueError: no event is generated, no event is
\* replayed and no record is added.  When the hashes are disjoint the
\* construction does not fail.
C16_OverlapFailsConstruction ==
    /\ HashesOverlap =>
           /\ pc = "ValueError"
           /\ event_stream = <<>> /\ event_nr = 0
           /\ Collected = <<>>
           /\ OpenSet = {} /\ ResolvedSet = {}
    /\ ~HashesOverlap => ~(pc = "ValueError" /\ event_stream = <<>>)

\* the commit c1 is passed in the history and in the list to predict
C16_Witness ==
    /\ HashesOverlap
    /\ pc = "ValueError"
    /\ "c1" \in {c.commit_hash : c \in Range(args.change_sets_to_predict)}

\* no issue id is listed twice
NoDuplicates(list) ==
    \A j, k \in DOMAIN list : list[j] = list[k] => j = k

\* C17: a call of create_issue or of resolve_issue that repeats the call
\* made just before leaves the state of the life-time manager as it is, and
\* neither list ever holds an issue id twice.
C17_RepeatedCallChangesNothing ==
    /\ [](/\ NoDuplicates(issue_manager.current_open_issues)
          /\ NoDuplicates(issue_manager.resolved_issues))
    /\ [][(calls # <<>> /\ calls' = Append(calls, calls[Len(calls)]))
              => issue_manager' = issue_manager]_vars

\* create_issue("I1") twice, then resolve_issue("I1") twice
C17_Witness ==
    /\ calls = <<Call("create_issue", "I1"), Call("create_issue", "I1"),
                 Call("resolve_issue", "I1"), Call("resolve_issue", "I1")>>
    /\ issue_manager.current_open_issues = <<>>
    /\ issue_manager.resolved_issues = <<"I1">>

\* C18: resolve_issue of an issue id that is not open raises nothing, leaves
\* the open issues as they are and has the id among the resolved issues.
C18_ResolveOfNotOpenIssue ==
    [][\A issue_id \in IssueIds :
          (/\ calls' = Append(calls, Call("resolve_issue", issue_id))
           /\ issue_id \notin OpenSet) =>
              /\ issue_manager'.current_open_issues =
                     issue_manager.current_open_issues
              /\ issue_id \in Range(issue_manager'.resolved_issues)
              /\ pc' = pc]_vars

\* resolve_issue("I1") while I2 alone is open
C18_Witness ==
    /\ calls = <<Call("create_issue", "I2"), Call("resolve_issue", "I1")>>
    /\ issue_manager.current_open_issues = <<"I2">>
    /\ issue_manager.resolved_issues = <<"I1">>

\* the members that own the user name, the members that own the name
OwnersOfUserName(user_name) ==
    {i \in DOMAIN team_members : user_name \in team_members[i].user_names}

OwnersOfName(name) ==
    {i \in DOMAIN team_members : name \in team_members[i].names}

First(S) == CHOOSE i \in S : \A j \in S : i <= j

\* the rule of the roster fold for the pair added next
FoldRule(name, user_name) ==
    IF OwnersOfUserName(user_name) # {}
    THEN LET m == First(OwnersOfUserName(user_name))
         IN  /\ Len(team_members') = Len(team_members)
             /\ \A i \in DOMAIN team_members :
                    team_members'[i] =
                        IF i = m
                        THEN [team_members[i] EXCEPT !.names = @ \cup {name}]
                        ELSE team_members[i]
    ELSE IF OwnersOfName(name) # {}
    THEN LET m == First(OwnersOfName(name))
         IN  /\ Len(team_members') = Len(team_members)
             /\ \A i \in DOMAIN team_members :
                    team_members'[i] =
                        IF i = m
                        THEN [team_members[i] EXCEPT
                                 !.user_names = @ \cup {user_name}]
                        ELSE team_members[i]
    ELSE /\ Len(team_members') = Len(team_members) + 1
         /\ SubSeq(team_members', 1, Len(team_members)) = team_members
         /\ team_members'[Len(team_members')] =
                [number |-> Len(team_members), names |-> {name},
                 user_names |-> {user_name}]

\* C19: adding a pair adds the name to the first member that owns the user
\* name, else the user name to the first member that owns the name, else a
\* new member whose id is the size of the roster.  And once all pairs are
\* added, every name is owned by one member, which owns all the user names
\* the name came with.
C19_RosterFold ==
    /\ [][team_users' = Tail(team_users) =>
              FoldRule(Head(team_users)[1], Head(team_users)[2])]_vars
    /\ [](team_users = <<>> =>
              \A name \in DOMAIN team_raw :
                  /\ Cardinality(OwnersOfName(name)) = 1
                  /\ \A i \in OwnersOfName(name) :
                         team_raw[name] \subseteq team_members[i].user_names)

\* C20: once all pairs are added, the members, their ids and their user
\* names are those that every other list of the same pairs, sorted by name,
\* leads to.
C20_RosterReproducible ==
    team_users = <<>> =>
        \A other \in sorted_flatten(team_raw, 1) :
            add_developers(<<>>, other) = team_members

\* the display names of the members of the roster
RosterNames == UNION {team_members[i].names : i \in DOMAIN team_members}

\* C21: whatever pairs have been added to a roster, no display name is owned
\* by two different members of it.
C21_NameOwnedByOneMember ==
    \A name \in RosterNames : Cardinality(OwnersOfName(name)) = 1

\* ProjectUsers.run has returned
UsersLinked ==
    /\ users_args.linked
    /\ users_args.jira_users = <<>> /\ users_args.git_users = <<>>

LinksOfJira(number) ==
    {k \in DOMAIN project_users.team_links :
        project_users.team_links[k].jira_idx = number}

LinksOfGit(number) ==
    {k \in DOMAIN project_users.team_links :
        project_users.team_links[k].git_idx = number}

SharesName(jira_dev, git_dev) == jira_dev.names \cap git_dev.names # {}

\* C22: after ProjectUsers.run on a fresh object every member of the jira
\* team and every member of the git team is in exactly one link, every link
\* has at least one side, and a member that shares no name with a member of
\* the other team is in a link without other side.
C22_EveryMemberInOneLink ==
    UsersLinked =>
        /\ \A j \in Range(project_users.jira_team) :
               /\ Cardinality(LinksOfJira(j.number)) = 1
               /\ (\A g \in Range(project_users.git_team) : ~SharesName(j, g))
                      => \A k \in LinksOfJira(j.number) :
                             project_users.team_links[k].git_idx = NoUser
        /\ \A g \in Range(project_users.git_team) :
               /\ Cardinality(LinksOfGit(g.number)) = 1
               /\ (\A j \in Range(project_users.jira_team) : ~SharesName(j, g))
                      => \A k \in LinksOfGit(g.number) :
                             project_users.team_links[k].jira_idx = NoUser
        /\ \A k \in DOMAIN project_users.team_links :
               \/ project_users.team_links[k].jira_idx # NoUser
               \/ project_users.team_links[k].git_idx # NoUser
        /\ \A k \in DOMAIN project_users.team_links :
               /\ project_users.team_links[k].jira_idx
                      \in {NoUser} \cup {j.number :
                                            j \in Range(project_users.jira_team)}
               /\ project_users.team_links[k].git_idx
                      \in {NoUser} \cup {g.number :
                                            g \in Range(project_users.git_team)}

\* Ann is in both teams, Bob in the jira team only: a two-sided link, a
\* link of the jira member Bob alone, and nothing else
C22_Witness ==
    /\ UsersLinked
    /\ Len(project_users.jira_team) = 2 /\ Len(project_users.git_team) = 1
    /\ project_users.team_links =
           <<[jira_idx |-> 0, git_idx |-> 0], [jira_idx |-> 1, git_idx |-> NoUser]>>

\* the git members linked by the first n links
LinkedBefore(n) ==
    {project_users.team_links[j].git_idx : j \in 1..n} \ {NoUser}

\* the git members a jira member can be linked to by link k, by position
Candidates(k) ==
    {p \in DOMAIN project_users.git_team :
        /\ SharesName(project_users.jira_team[k], project_users.git_team[p])
        /\ project_users.git_team[p].number \notin LinkedBefore(k - 1)}

\* C23: the k-th link is of the k-th jira member; its git side is the first
\* git member, not linked by an earlier link, that shares a name with it,
\* and is absent exactly when there is none; no git member is linked to two
\* jira members; the git members left follow, one-sided, in roster order.
C23_LinkedToFirstFreeNamesake ==
    UsersLinked =>
        LET links == project_users.team_links
            jira == project_users.jira_team
            git == project_users.git_team
            left == SelectSeq([p \in DOMAIN git |-> git[p].number],
                              LAMBDA n : n \notin LinkedBefore(Len(jira)))
        IN  /\ Len(links) = Len(jira) + Len(left)
            /\ \A k \in DOMAIN jira :
                   /\ links[k].jira_idx = jira[k].number
                   /\ links[k].git_idx =
                          IF Candidates(k) = {} THEN NoUser
                          ELSE git[First(Candidates(k))].number
            /\ \A k \in DOMAIN left :
                   links[Len(jira) + k] =
                       [jira_idx |-> NoUser, git_idx |-> left[k]]
            /\ \A j, k \in DOMAIN links :
                   (links[j].git_idx = links[k].git_idx
                        /\ links[j].git_idx # NoUser) => j = k

\* two jira members named Bob and one git member named Bob: the first jira
\* member is linked to it, the second is left without git side
C23_Witness ==
    /\ UsersLinked
    /\ Len(project_users.jira_team) = 2 /\ Len(project_users.git_team) = 1
    /\ \A j \in Range(project_users.jira_team) :
           SharesName(j, project_users.git_team[1])
    /\ project_users.team_links =
           <<[jira_idx |-> 0, git_idx |-> 0], [jira_idx |-> 1, git_idx |-> NoUser]>>

\* C26: the result of resource_similarity(A, B) is the size of the
\* intersection of the sets of A and B divided by the larger of their sizes,
\* 0 when both are empty; it lies between 0 and 1; it is the result of
\* resource_similarity(B, A); and it is 1/2 for [a,b,c,d] and [a,c,e] and
\* for [a,a] and [b,a], and 0 for [a,a] and [b].
C26_ResourceSimilarity ==
    resource_call.result # None =>
        LET A == Range(resource_call.first)
            B == Range(resource_call.second)
            larger == IF Cardinality(A) > Cardinality(B)
                      THEN Cardinality(A) ELSE Cardinality(B)
            value == ValueOf(resource_call.result)
        IN  /\ value[2] > 0
            /\ value[1] * larger = Cardinality(A \cap B) * value[2]
            /\ larger = 0 => value[1] = 0
            /\ 0 <= value[1] /\ value[1] <= value[2]
            /\ resource_similarity(resource_call.second, resource_call.first)
                   = value
            /\ (/\ resource_call.first = <<"a", "b", "c", "d">>
                /\ resource_call.second = <<"a", "c", "e">>) => value = <<1, 2>>
            /\ (/\ resource_call.first = <<"a", "a">>
                /\ resource_call.second = <<"b", "a">>) => value = <<1, 2>>
            /\ (/\ resource_call.first = <<"a", "a">>
                /\ resource_call.second = <<"b">>) => value[1] = 0

\* resource_similarity(["a", "c", "e"], ["a", "b", "c", "d"]) has returned
C26_Witness ==
    /\ resource_call.first = <<"a", "c", "e">>
    /\ resource_call.second = <<"a", "b", "c", "d">>
    /\ resource_call.result = Some(<<1, 2>>)

\* the links whose member on the side of the tag owns the handle
OwnerLinks(handle, tag) ==
    {i \in DOMAIN project_users.team_links :
        LET link == project_users.team_links[i]
        IN  IF tag = "jira"
            THEN /\ link.jira_idx # NoUser
                 /\ \E m \in Range(project_users.jira_team) :
                        m.number = link.jira_idx /\ handle \in m.user_names
            ELSE /\ link.git_idx # NoUser
                 /\ \E m \in Range(project_users.git_team) :
                        m.number = link.git_idx /\ handle \in m.user_names}

\* the id is the index of a link that owns the handle, or else the sentinel
IdentityOf(user_id, handle, tag, sentinel) ==
    /\ user_id # NoUser
    /\ IF OwnerLinks(handle, tag) # {}
       THEN user_id + 1 \in OwnerLinks(handle, tag)
       ELSE user_id = sentinel

LookupsBuilt == pc \in {"running", "done"}

\* C24 as stated: the identity id of an issue and of a commit, as used in the
\* records, is the index of the link whose member on that side owns the
\* handle, and otherwise one greater than the size of the roster (of that
\* side, or of the links); it is never absent.
C24_SentinelOneGreaterThanRoster ==
    LookupsBuilt =>
        /\ \A id \in DOMAIN issue_id_to_issue :
               LET issue == issue_id_to_issue[id]
               IN  \/ IdentityOf(issue.user_id, issue.assignee_username, "jira",
                                 Len(project_users.jira_team) + 1)
                   \/ IdentityOf(issue.user_id, issue.assignee_username, "jira",
                                 Len(project_users.team_links) + 1)
        /\ \A h \in DOMAIN commit_hash_to_change_set :
               LET commit == commit_hash_to_change_set[h]
               IN  \/ IdentityOf(commit.user_id, commit.author_email, "git",
                                 Len(project_users.git_team) + 1)
                   \/ IdentityOf(commit.user_id, commit.author_email, "git",
                                 Len(project_users.team_links) + 1)

\* C24, amended: the identity id of an issue and of a commit, as used in the
\* records, is the index of the link whose member on that side owns the
\* handle; otherwise it is the number of links for the tracker side and the
\* number of links plus one for the vcs side; it is never absent.
C24_IdentityLookup ==
    LookupsBuilt =>
        /\ \A id \in DOMAIN issue_id_to_issue :
               LET issue == issue_id_to_issue[id]
               IN  IdentityOf(issue.user_id, issue.assignee_username, "jira",
                              Len(project_users.team_links))
        /\ \A h \in DOMAIN commit_hash_to_change_set :
               LET commit == commit_hash_to_change_set[h]
               IN  IdentityOf(commit.user_id, commit.author_email, "git",
                              Len(project_users.team_links) + 1)
        /\ \A k \in DOMAIN Collected :
               /\ Collected[k].f03_commit_user_id =
                      commit_hash_to_change_set[Collected[k].f00_commit_hash]
                          .user_id
               /\ Collected[k].f04_issue_user_id =
                      issue_id_to_issue[Collected[k].f01_issue_id].user_id

\* a record of a commit without author for an issue without assignee, next to
\* a record of a commit whose author is a member of a link
C24_Witness ==
    /\ pc = "done"
    /\ project_users.team_links # <<>>
    /\ \E k \in DOMAIN Collected :
           /\ Collected[k].f04_issue_user_id = Len(project_users.team_links)
           /\ Collected[k].f03_commit_user_id =
                  Len(project_users.team_links) + 1
    /\ \E k \in DOMAIN Collected :
           Collected[k].f03_commit_user_id < Len(project_users.team_links)

\* the commits of the lookup that the filtered link table links to the issue
LinkedCommits(issue_id) ==
    {h \in Range(EntryGet(data_source.issue_to_change_set, issue_id, <<>>)) :
        h \in DOMAIN commit_hash_to_change_set}

DateOf(commit_hash) == commit_hash_to_change_set[commit_hash].committed_date

EarlierLinked(record) ==
    {h \in LinkedCommits(record.f01_issue_id) :
        DateLess(DateOf(h), record.date_time)}

LaterLinked(record) ==
    {h \in LinkedCommits(record.f01_issue_id) :
        DateLess(record.date_time, DateOf(h))}

SameInstantLinked(record) ==
    {h \in LinkedCommits(record.f01_issue_id) :
        h # record.f00_commit_hash /\ DateOf(h) = record.date_time}

Absent(descriptor) ==
    /\ descriptor.time_difference = None
    /\ descriptor.resource_overlap = None
    /\ descriptor.committer_user_id = None

\* the descriptor describes the commit h as a neighbour of the record's commit
Describes(descriptor, record, h) ==
    LET seconds == date_time_to_timestamp(DateOf(h))
                       - date_time_to_timestamp(record.date_time)
    IN  /\ descriptor.time_difference = Some(Abs(seconds))
        /\ descriptor.resource_overlap =
               Some(resource_similarity(
                        commit_hash_to_change_set[record.f00_commit_hash]
                            .file_path,
                        commit_hash_to_change_set[h].file_path))
        /\ descriptor.committer_user_id =
               Some(commit_hash_to_change_set[h].user_id)

\* C27: in every record of a commit c and an issue i, the previous descriptor
\* describes a latest one of the commits linked to i that are strictly
\* earlier than c, the next descriptor an earliest one of those strictly
\* later; a descriptor is absent exactly when there is no such commit; no
\* descriptor describes a commit of c's own instant, so c is never its own
\* neighbour; every time difference that is present is strictly positive.
C27_NeighbourSearch ==
    \A k \in DOMAIN Collected :
        LET record == Collected[k]
            previous == record.f07_09_previous_linked_commit
            next == record.f17_19_next_linked_commit
        IN  /\ Absent(previous) <=> EarlierLinked(record) = {}
            /\ Absent(next) <=> LaterLinked(record) = {}
            /\ EarlierLinked(record) # {} =>
                   \E h \in EarlierLinked(record) :
                       /\ \A g \in EarlierLinked(record) :
                              ~DateLess(DateOf(h), DateOf(g))
                       /\ Describes(previous, record, h)
            /\ LaterLinked(record) # {} =>
                   \E h \in LaterLinked(record) :
                       /\ \A g \in LaterLinked(record) :
                              ~DateLess(DateOf(g), DateOf(h))
                       /\ Describes(next, record, h)
            /\ \A d \in {previous, next} :
                   d.time_difference # None => ValueOf(d.time_difference) > 0

\* a record of a commit linked to the issue, with two linked commits before
\* it at different instants, and a record with a later linked commit
C27_Witness ==
    /\ pc = "done"
    /\ \E k \in DOMAIN Collected :
           /\ Collected[k].f00_commit_hash \in LinkedCommits(Collected[k].f01_issue_id)
           /\ \E g, h \in EarlierLinked(Collected[k]) : DateLess(DateOf(g), DateOf(h))
           /\ ~Absent(Collected[k].f07_09_previous_linked_commit)
    /\ \E k \in DOMAIN Collected :
           /\ LaterLinked(Collected[k]) # {}
           /\ ~Absent(Collected[k].f17_19_next_linked_commit)

\* C28 as stated: when another commit linked to the issue has exactly the
\* committed time of the record's commit, the previous descriptor describes a
\* commit of that instant, and the next descriptor does not.
C28_SameInstantIsPrevious ==
    \A k \in DOMAIN Collected :
        LET record == Collected[k]
        IN  SameInstantLinked(record) # {} =>
                /\ \E h \in SameInstantLinked(record) :
                       Describes(record.f07_09_previous_linked_commit, record, h)
                /\ \A h \in SameInstantLinked(record) :
                       ~Describes(record.f17_19_next_linked_commit, record, h)

\* C28, amended: another commit linked to the issue with exactly the
\* committed time of the record's commit is neither the previous nor the next
\* linked commit: both descriptors are those of the record without the
\* commits of that instant, and no time difference is zero.
C28_SameInstantIsNoNeighbour ==
    \A k \in DOMAIN Collected :
        LET record == Collected[k]
            previous == record.f07_09_previous_linked_commit
            next == record.f17_19_next_linked_commit
        IN  SameInstantLinked(record) # {} =>
                /\ \A h \in SameInstantLinked(record) :
                       /\ ~Describes(previous, record, h)
                       /\ ~Describes(next, record, h)
                /\ previous.time_difference # Some(0)
                /\ next.time_difference # Some(0)
                /\ EarlierLinked(record) = {} => Absent(previous)
                /\ LaterLinked(record) = {} => Absent(next)

\* a record whose issue is linked to another commit of the same instant and
\* to no earlier commit
C28_Witness ==
    /\ pc = "done"
    /\ \E k \in DOMAIN Collected :
           /\ SameInstantLinked(Collected[k]) # {}
           /\ EarlierLinked(Collected[k]) = {}
           /\ LaterLinked(Collected[k]) # {}
           /\ Absent(Collected[k].f07_09_previous_linked_commit)

\* C29: the prior-link count of a record of a commit c and an issue i is the
\* number of commits that the filtered link table links to i and that were
\* committed strictly before c; c and the commits of c's instant do not count.
C29_PriorLinkCount ==
    \A k \in DOMAIN Collected :
        Collected[k].f11_num_commits_to_this_issues =
            Cardinality(EarlierLinked(Collected[k]))

\* a record of a linked commit with one linked commit before it and another
\* at its own instant
C29_Witness ==
    /\ pc = "done"
    /\ \E k \in DOMAIN Collected :
           /\ Collected[k].f00_commit_hash \in LinkedCommits(Collected[k].f01_issue_id)
           /\ SameInstantLinked(Collected[k]) # {}
           /\ Collected[k].f11_num_commits_to_this_issues = 1

\* the values the oracle returns for the files of the record's commit
OracleValues(record, handler) ==
    LET commit == commit_hash_to_change_set[record.f00_commit_hash]
    IN  UNION {IF handler = "lsi"
               THEN code_to_issue_lsi(record.f01_issue_id,
                                      record.f00_commit_hash, f)
               ELSE IF handler = "vsm"
               THEN code_to_issue_vsm_ngram(record.f01_issue_id,
                                            record.f00_commit_hash, f)
               ELSE trace_metric(record.f01_issue_id,
                                 record.f00_commit_hash, f) :
               f \in Range(commit.file_path)}

\* the value is the greatest of the values, or 0 when there is none
GreatestOrZero(value, values) ==
    /\ value \in Int
    /\ IF values = {} THEN value = 0
       ELSE value \in values /\ \A v \in values : v <= value

SecondRunDone == pc = "done" /\ earlier_runs # <<>>

\* C25: when a second engine, constructed from the same arguments and given
\* the same oracles, has run, its two collectors hold the records of the
\* collectors of the first engine, in the same order and field for field.
C25_TwoRunsSameRecords ==
    SecondRunDone =>
        /\ data_source_collector = earlier_runs[1].data_source_collector
        /\ to_predict_collector = earlier_runs[1].to_predict_collector

UnknownActionNext ==
    /\ HasEvent
    /\ event.type = "JiraEvent"
    /\ event.action \notin {"create", "resolve"}

C32_RunsToCompletion ==
    /\ (pc = "constructed") ~> (pc = "done")
    /\ [][pc = "running" =>
              \/ pc' = "running" /\ event_nr' = event_nr + 1
              \/ /\ pc' = "done"
                 /\ event_nr = Len(event_stream) /\ event_nr' = event_nr]_vars

\* the issues of the lookup whose category is one of the configured ones
InScopeOfLookup ==
    {id \in DOMAIN issue_id_to_issue :
        issue_id_to_issue[id].mapped_type \in Range(allowed_issue_types)}

\* C33: every record of either collector is of an issue of the issue lookup
\* whose category is configured, and the open and the resolved set hold ids
\* of such issues only.
C33_OnlyInScopeIssues ==
    /\ \A k \in DOMAIN Collected : Collected[k].f01_issue_id \in InScopeOfLookup
    /\ OpenSet \cup ResolvedSet \subseteq InScopeOfLookup

\* the run is over; the commit c1, linked to the in-scope issue I1 and to the
\* issue I2 of another category, has a record, and an issue has been resolved
C33_Witness ==
    /\ pc = "done"
    /\ KnownLinks("c1") = {"I1", "I2"}
    /\ InScope("I1") /\ ~InScope("I2")
    /\ "I2" \in {i.id : i \in Range(data_source.issues)}
    /\ RecordsOf("c1") # {}
    /\ ResolvedSet # {}

\* C34: the records made by the replay of one commit event are of different
\* issues: no two of them are of the same commit and issue.
C34_OneRecordPerPair ==
    \A j, k \in DOMAIN samples :
        (/\ samples[j].f00_commit_hash = samples[k].f00_commit_hash
         /\ samples[j].f01_issue_id = samples[k].f01_issue_id) => j = k

\* the places of the events of an issue in the stream
PlacesOf(issue_id, action) ==
    {k \in DOMAIN event_stream :
        /\ event_stream[k].type = "JiraEvent"
        /\ event_stream[k].issue_id = issue_id
        /\ event_stream[k].action = action}

InScopeIds == {i.id : i \in {x \in Range(data_source.issues) : InScope(x.id)}}

\* the ids are unique, and the create event of every issue precedes its
\* resolve event
CreateBeforeResolve ==
    /\ \A j, k \in DOMAIN data_source.issues :
           data_source.issues[j].id = data_source.issues[k].id => j = k
    /\ \A id \in InScopeIds :
           \A c \in PlacesOf(id, "create"), r \in PlacesOf(id, "resolve") : c < r

CommitEventNext == HasEvent /\ event.type = "GitEvent"

\* C35: when the ids are unique and every create event precedes the resolve
\* event of its issue, then, at the moment a commit event is the next event
\* of the loop, the open issues are the in-scope issues whose create event is
\* before it and whose resolve event is after it in the stream, and the
\* resolved issues are the in-scope issues whose resolve event is before it.
C35_NoFutureInformation ==
    (CommitEventNext /\ CreateBeforeResolve) =>
        /\ OpenSet =
               {id \in InScopeIds :
                   /\ \E c \in PlacesOf(id, "create") : c <= event_nr
                   /\ \E r \in PlacesOf(id, "resolve") : r > event_nr + 1}
        /\ ResolvedSet =
               {id \in InScopeIds :
                   \E r \in PlacesOf(id, "resolve") : r <= event_nr}

\* a commit event is next while one in-scope issue is open, another one has
\* been resolved, and c1, not yet replayed, comes later in the stream
C35_Witness ==
    /\ CommitEventNext /\ CreateBeforeResolve
    /\ OpenSet = {"I1"} /\ ResolvedSet = {"I2"}
    /\ event.commit_hash = "c2"
    /\ \E k \in DOMAIN event_stream :
           k > event_nr + 1 /\ event_stream[k].type = "GitEvent"

\* the seconds from the resolution of the record's issue to its commit
SecondsSinceResolution(record) ==
    date_time_to_timestamp(record.date_time)
        - date_time_to_timestamp(
              issue_id_to_issue[record.f01_issue_id].resolved_date)

\* a record of the loop over the resolved issues
OfResolvedBranch(record) ==
    /\ ~record.f06_is_commit_within_issue_life_time
    /\ KnownLinks(record.f00_commit_hash) = {}

\* C36: every record with within-lifetime = false of a commit without known
\* link is of an issue with a resolution date, and its commit was made at
\* least 1800 and less than 129600 seconds after the resolution: no such
\* record is of an issue resolved after the commit.
C36_ResolvedBranchWindow ==
    \A k \in DOMAIN Collected :
        OfResolvedBranch(Collected[k]) =>
            /\ issue_id_to_issue[Collected[k].f01_issue_id].resolved_date # NoDate
            /\ SecondsSinceResolution(Collected[k]) >= 1800
            /\ SecondsSinceResolution(Collected[k]) < 129600

\* a record of the resolved branch whose commit was made 1800 seconds after
\* the resolution, and one whose commit was made more than a day after it
C36_Witness ==
    /\ \E k \in DOMAIN Collected :
           /\ OfResolvedBranch(Collected[k])
           /\ SecondsSinceResolution(Collected[k]) = 1800
    /\ \E k \in DOMAIN Collected :
           /\ OfResolvedBranch(Collected[k])
           /\ SecondsSinceResolution(Collected[k]) > 86400

\* C37: a second call of run() on the same engine, with new collectors,
\* raises nothing, and when it is over its collectors hold the records of
\* the collectors of the first call, in the same order.
C37_RunIsRepeatable ==
    earlier_runs # <<>> =>
        /\ pc \in {"constructed", "running", "done"}
        /\ pc = "done" =>
               /\ data_source_collector = earlier_runs[1].data_source_collector
               /\ to_predict_collector = earlier_runs[1].to_predict_collector

LinkIndices == 0..(Len(project_users.team_links) - 1)

\* C38: the id of an issue whose assignee handle no link owns and the id of a
\* commit whose author handle no link owns are no link indices and differ
\* from each other; so the author id of a record equals its assignee id only
\* when one link owns both the author handle, on the vcs side, and the
\* assignee handle, on the tracker side.
C38_SentinelsAreDistinct ==
    LookupsBuilt =>
        LET unknown_issues ==
                {id \in DOMAIN issue_id_to_issue :
                    OwnerLinks(issue_id_to_issue[id].assignee_username,
                               "jira") = {}}
            unknown_commits ==
                {h \in DOMAIN commit_hash_to_change_set :
                    OwnerLinks(commit_hash_to_change_set[h].author_email,
                               "git") = {}}
        IN  /\ \A id \in unknown_issues :
                   issue_id_to_issue[id].user_id \notin LinkIndices
            /\ \A h \in unknown_commits :
                   commit_hash_to_change_set[h].user_id \notin LinkIndices
            /\ \A id \in unknown_issues, h \in unknown_commits :
                   issue_id_to_issue[id].user_id #
                       commit_hash_to_change_set[h].user_id
            /\ \A k \in DOMAIN Collected :
                   LET record == Collected[k]
                       commit == commit_hash_to_change_set[record.f00_commit_hash]
                       issue == issue_id_to_issue[record.f01_issue_id]
                   IN  same_users(record.f03_commit_user_id,
                                  record.f04_issue_user_id) = Some(TRUE) =>
                           /\ record.f03_commit_user_id \in LinkIndices
                           /\ record.f03_commit_user_id + 1 \in
                                  OwnerLinks(commit.author_email, "git")
                                  \cap OwnerLinks(issue.assignee_username,
                                                  "jira")

\* a record of a commit without author for an issue without assignee, whose
\* two ids differ, and a record whose two ids are the index of one link
C38_Witness ==
    /\ pc = "done"
    /\ \E k \in DOMAIN Collected :
           /\ Collected[k].f03_commit_user_id \notin LinkIndices
           /\ Collected[k].f04_issue_user_id \notin LinkIndices
           /\ same_users(Collected[k].f03_commit_user_id,
                         Collected[k].f04_issue_user_id) = Some(FALSE)
    /\ \E k \in DOMAIN Collected :
           same_users(Collected[k].f03_commit_user_id,
                      Collected[k].f04_issue_user_id) = Some(TRUE)

\* the user names of the members of the roster
RosterUserNames ==
    UNION {team_members[i].user_names : i \in DOMAIN team_members}

\* C39: whatever pairs have been added to a roster, in whatever order, every
\* user name of the roster is owned by one member, so that a search by user
\* name finds at most one member.
C39_UserNameOwnedByOneMember ==
    \A user_name \in RosterUserNames \cup {"u1", "u2", ""} :
        Cardinality(OwnersOfUserName(user_name)) <= 1

\* the pairs (Ann, u1), (Bob, u2), (Bob, u1) have been added: the last one
\* finds u1 owned by the first member, while the second member owns Bob
C39_Witness ==
    /\ team_users = <<>>
    /\ team_members =
           <<[number |-> 0, names |-> {"Ann", "Bob"}, user_names |-> {"u1"}],
             [number |-> 1, names |-> {"Bob"}, user_names |-> {"u2"}]>>

\* ---- C40 --------------------------------------------------------------

\* the last call of get_link_id passed a team name that is neither "jira"
\* nor "git"
UnknownTeamNameCalled ==
    /\ calls # <<>>
    /\ calls[1].team_name \notin {"jira", "git"}

\* C40: a call of get_link_id with a team name other than "jira" and "git"
\* raises ValueError in every state of the link list, the empty one
\* included, and never returns a value
C40_UnknownTeamNameRaises ==
    UnknownTeamNameCalled => calls[1].outcome.exception = "ValueError"


====
